---- MODULE Spec2Model ----
(***************************************************************************)
(* Model of the voice-assistant backend: the ConversationManager and its   *)
(* ConversationSession objects (models/conversation.py), the VoicePipeline *)
(* orchestrator (services/voice_pipeline.py) with the four service         *)
(* wrappers it calls, and the websocket endpoint (main.py) that ties them  *)
(* together.                                                               *)
(*                                                                         *)
(* Conventions.  Texts are strings.  A confidence is an integer number of  *)
(* hundredths (0.7 is 70, 1.0 is 100).  Time is an integer clock `now`.    *)
(* A session id (uuid4 in the code) is the allocation index of the session *)
(* object, so `sessions` is the heap of every ConversationSession object   *)
(* ever constructed.  Python's None is the value None, 0 where a session   *)
(* id is expected and NoTime where a timestamp is expected.                *)
(***************************************************************************)
EXTENDS Integers, Sequences, FiniteSets, TLC

VARIABLES
    sessions,         \* heap of ConversationSession objects, indexed by id
    active_sessions,  \* ConversationManager.active_sessions: dict client id -> session id
    session_history,  \* ConversationManager.session_history: sequence of ids
    now,              \* the clock read by datetime.now() / time.time()
    last_call,        \* history: the last ConversationManager call (export runs: AnalyticsService call) and what it returned
    pipe_sessions,    \* VoicePipeline.active_sessions: session id -> context
    calls,            \* the process_audio_chunk coroutines, by call id
    stream,           \* the process_streaming_audio generator
    conns,            \* the websocket_endpoint coroutines, by connection id
    active_connections, \* main.active_connections: dict client id -> connection
    call_logs,        \* AnalyticsService.call_logs
    interaction_logs, \* AnalyticsService.interaction_logs
    question_patterns, \* AnalyticsService.question_patterns: dict pattern -> count
    fullLog,          \* history: every turn ever added to each ConversationSession
    pipeLog           \* history: every turn ever added to each pipeline context

vars == <<sessions, active_sessions, session_history, now, last_call,
          pipe_sessions, calls, stream, conns, active_connections, call_logs,
          interaction_logs, question_patterns, fullLog, pipeLog>>

managerVars == <<sessions, active_sessions, session_history, last_call, fullLog>>
pipelineVars == <<pipe_sessions, calls, stream, pipeLog>>
analyticsVars == <<call_logs, interaction_logs, question_patterns>>
appVars == <<conns, active_connections, analyticsVars>>

----------------------------------------------------------------------------
(* Bounds of the model *)

MaxSessions == 2           \* ConversationSession objects constructed in a run
MaxExchanges == 1          \* successful add_interaction calls in a manager run
MaxTime == 1               \* clock ticks in a manager run
MaxCalls == 1              \* process_audio_chunk calls in a run
MaxPipelineSessions == 2   \* session ids handed to process_audio_chunk (pipeline runs)
MaxConcurrentCalls == 2    \* process_audio_chunk calls in flight together
MaxStreamEvents == 3       \* transcriptions yielded to process_streaming_audio
MaxConns == 2              \* websocket connections in a run
MaxWindowExchanges == 27   \* add_interaction calls on the session of the window runs
MaxContextExchanges == 11  \* _update_session_context calls in the window runs
MaxCeilingSessions == 3    \* ConversationSession objects constructed in a ceiling run
MaxRecordedCalls == 3      \* save_call_data calls in a call-log run
MaxLoggedQuestions == 3    \* user messages logged in a questions run
MaxLimit == 3              \* largest limit asked of get_common_questions
SmallCeiling == 2          \* max_active_sessions of the manager of the ceiling runs
MaxExportCalls == 2        \* save_call_data calls in an export run
MaxExportTurns == 2        \* user turns in the windows of an export run, together

Clients == {"c1", "c2"}
SessionIds == 1..MaxSessions
CallIds == 1..MaxCalls
PipelineSessionIds == 1..MaxPipelineSessions
ConnIds == 1..MaxConns

None == "None"
NoTime == -1

----------------------------------------------------------------------------
(* Program constants *)

SESSION_HISTORY_CAP == 50          \* conversation.py:47-48
CONTEXT_HISTORY_CAP == 20          \* voice_pipeline.py:195-196
min_confidence_threshold == 70     \* voice_pipeline.py:41 (0.7)
max_active_sessions == 1000        \* conversation.py:95
SESSION_MAX_AGE == 3600            \* conversation.py:234
DEFAULT_CONFIDENCE == 100          \* conversation.py:29 (confidence: float = 1.0)

CLARIFICATION_TEXT ==
    "I'm sorry, I didn't catch that clearly. Could you please repeat your question?"
FALLBACK_TEXT ==
    "I apologize, but I'm having trouble processing your request right now. Could you please try again?"
ERROR_TEXT ==
    "I'm sorry, I encountered a technical issue. Please try again or speak with a human agent."

----------------------------------------------------------------------------
(* Inputs *)

Messages == {"what is my bill", "reset my password"}
ManagerMessages == {"what is my bill"}     \* user messages of the manager runs
Replies == {"Your bill is **$42**. Anything else?"}
Confidences == {0, 69, 70, 95}

----------------------------------------------------------------------------
(* Sequence helpers *)

\* Python's seq[-n:] for n > 0
LastN(seq, n) == IF Len(seq) <= n THEN seq ELSE SubSeq(seq, Len(seq) - n + 1, Len(seq))

----------------------------------------------------------------------------
(* ConversationSession *)

ConversationSession(id, client_id, t) ==
    [id |-> id, client_id |-> client_id, user_id |-> None,
     start_time |-> t, end_time |-> NoTime, status |-> "active",
     total_interactions |-> 0, conversation_history |-> <<>>]

UserTurn(user_message, confidence, t) ==
    [role |-> "user", content |-> user_message, timestamp |-> t, confidence |-> confidence]

AssistantTurn(ai_response, t) ==
    [role |-> "assistant", content |-> ai_response, timestamp |-> t]

\* the mutant keeps the first 50 turns instead of the last 50
TruncateSessionHistory_keep_oldest(h) ==
    IF Len(h) > SESSION_HISTORY_CAP THEN SubSeq(h, 1, SESSION_HISTORY_CAP) ELSE h

TruncateSessionHistory(h) ==
    IF Len(h) > SESSION_HISTORY_CAP THEN LastN(h, SESSION_HISTORY_CAP) ELSE h

\* the mutant counts stored exchanges instead of incrementing
CountInteraction_from_window(s, h) == Len(h) \div 2

CountInteraction(s, h) == s.total_interactions + 1

\* ConversationSession.add_interaction: the session after the call
add_interaction(s, user_message, ai_response, confidence, t) ==
    LET h == s.conversation_history \o
                 <<UserTurn(user_message, confidence, t), AssistantTurn(ai_response, t)>>
        kept == TruncateSessionHistory(h)
    IN  [s EXCEPT !.conversation_history = kept,
                  !.total_interactions = CountInteraction(s, kept)]

----------------------------------------------------------------------------
(* Python dict (insertion-ordered) as a sequence of [key, value] entries *)

DictKeys(d) == {d[i].key : i \in 1..Len(d)}

\* d.get(k), 0 standing for None
DictGet(d, k) ==
    IF k \in DictKeys(d) THEN d[CHOOSE i \in 1..Len(d) : d[i].key = k].value ELSE 0

\* the mutant adds a second entry for a key already present
DictSet_duplicate_key(d, k, v) == Append(d, [key |-> k, value |-> v])

\* d[k] = v
DictSet(d, k, v) ==
    IF k \in DictKeys(d)
    THEN [i \in 1..Len(d) |-> IF d[i].key = k THEN [key |-> k, value |-> v] ELSE d[i]]
    ELSE Append(d, [key |-> k, value |-> v])

\* del d[k]
DictDel(d, k) == SelectSeq(d, LAMBDA e : e.key # k)

----------------------------------------------------------------------------
(* ConversationManager *)

\* a call of a manager method and what it returned: a session id (0 for None),
\* or 1 / 0 for the True / False of add_interaction
Call(op, client, value) == [op |-> op, client |-> client, value |-> value]
NoCall == Call("none", None, 0)

\* the mutant leaves the ended session in active_sessions
EndSessionState_keep_active(h, a, hist, client_id, t) ==
    LET sid == DictGet(a, client_id)
    IN  IF sid # 0
        THEN [heap |-> [h EXCEPT ![sid].end_time = t, ![sid].status = "ended"],
              active |-> a,
              history |-> Append(hist, sid),
              value |-> sid]
        ELSE [heap |-> h, active |-> a, history |-> hist, value |-> 0]

\* the mutant moves the session to the history without marking it ended
EndSessionState_no_status(h, a, hist, client_id, t) ==
    LET sid == DictGet(a, client_id)
    IN  IF sid # 0
        THEN [heap |-> [h EXCEPT ![sid].end_time = t],
              active |-> DictDel(a, client_id),
              history |-> Append(hist, sid),
              value |-> sid]
        ELSE [heap |-> h, active |-> a, history |-> hist, value |-> 0]

\* end_session on the manager state (h: heap, a: active_sessions, hist: session_history)
EndSessionState(h, a, hist, client_id, t) ==
    LET sid == DictGet(a, client_id)
    IN  IF sid # 0
        THEN [heap |-> [h EXCEPT ![sid].end_time = t, ![sid].status = "ended"],
              active |-> DictDel(a, client_id),
              history |-> Append(hist, sid),
              value |-> sid]
        ELSE [heap |-> h, active |-> a, history |-> hist, value |-> 0]

\* the mutant collects the sessions that are exactly SESSION_MAX_AGE old as well
SessionsToRemove_inclusive(h, a, t) ==
    LET old == SelectSeq(a, LAMBDA e : t - h[e.value].start_time >= SESSION_MAX_AGE)
    IN  [i \in 1..Len(old) |-> old[i].key]

\* the list sessions_to_remove built by _cleanup_old_sessions, in dict order
SessionsToRemove(h, a, t) ==
    LET old == SelectSeq(a, LAMBDA e : t - h[e.value].start_time > SESSION_MAX_AGE)
    IN  [i \in 1..Len(old) |-> old[i].key]

\* _cleanup_old_sessions: end_session for each collected client id, in order
RECURSIVE CleanupOldSessions(_, _, _, _, _)
CleanupOldSessions(h, a, hist, todo, t) ==
    IF todo = <<>> THEN [heap |-> h, active |-> a, history |-> hist]
    ELSE LET e == EndSessionState(h, a, hist, Head(todo), t)
         IN  CleanupOldSessions(e.heap, e.active, e.history, Tail(todo), t)

\* the mutant resumes the ended session of a returning client
DoCreateSessionAt_resume(client_id, ceiling) ==
    LET ended == {i \in 1..Len(session_history) :
                     sessions[session_history[i]].client_id = client_id}
    IN  IF ended # {} /\ DictGet(active_sessions, client_id) = 0
        THEN LET old == session_history[CHOOSE i \in ended : \A j \in ended : j <= i]
             IN  /\ sessions' = [sessions EXCEPT ![old].status = "active"]
                 /\ active_sessions' = DictSet(active_sessions, client_id, old)
                 /\ UNCHANGED <<session_history, fullLog>>
                 /\ last_call' = (Call("create", client_id, old))
        ELSE /\ sessions' = Append(sessions, ConversationSession(Len(sessions) + 1, client_id, now))
             /\ active_sessions' = DictSet(active_sessions, client_id, Len(sessions) + 1)
             /\ UNCHANGED session_history
             /\ fullLog' = Append(fullLog, <<>>)
             /\ last_call' = (Call("create", client_id, Len(sessions) + 1))

\* create_session on a manager whose max_active_sessions attribute is `ceiling`
DoCreateSessionAt(client_id, ceiling) ==
    LET sid == Len(sessions) + 1
        session == ConversationSession(sid, client_id, now)
        cleaned == IF Len(active_sessions) >= ceiling
                   THEN CleanupOldSessions(sessions, active_sessions, session_history,
                            SessionsToRemove(sessions, active_sessions, now), now)
                   ELSE [heap |-> sessions, active |-> active_sessions,
                         history |-> session_history]
    IN  /\ sessions' = Append(cleaned.heap, session)
        /\ active_sessions' = DictSet(cleaned.active, client_id, sid)
        /\ session_history' = cleaned.history
        /\ fullLog' = Append(fullLog, <<>>)
        /\ last_call' = (Call("create", client_id, sid))

DoCreateSession(client_id) == DoCreateSessionAt(client_id, max_active_sessions)

create_session(client_id) ==
    /\ Len(sessions) < MaxSessions
    /\ DoCreateSession(client_id)
    /\ UNCHANGED <<now, pipelineVars, appVars>>

get_session(client_id) ==
    /\ last_call' = (Call("get", client_id, DictGet(active_sessions, client_id)))
    /\ UNCHANGED <<sessions, active_sessions, session_history, fullLog, now,
                   pipelineVars, appVars>>

DoEndSession(client_id) ==
    LET e == EndSessionState(sessions, active_sessions, session_history, client_id, now)
    IN  /\ sessions' = e.heap
        /\ active_sessions' = e.active
        /\ session_history' = e.history
        /\ last_call' = (Call("end", client_id, e.value))

end_session(client_id) ==
    /\ DoEndSession(client_id)
    /\ UNCHANGED <<fullLog, now, pipelineVars, appVars>>

\* ConversationManager.add_interaction
\* the mutant looks the session up among all sessions of the client, ended or not
DoAddInteraction_any_session(client_id, user_message, ai_response, confidence) ==
    LET owned == {i \in 1..Len(sessions) : sessions[i].client_id = client_id}
        sid == IF owned = {} THEN 0 ELSE CHOOSE i \in owned : \A j \in owned : j <= i
    IN  IF sid # 0
        THEN /\ sessions' = [sessions EXCEPT
                    ![sid] = add_interaction(@, user_message, ai_response, confidence, now)]
             /\ fullLog' = [fullLog EXCEPT ![sid] = @ \o
                    <<UserTurn(user_message, confidence, now), AssistantTurn(ai_response, now)>>]
             /\ last_call' = (Call("add", client_id, 1))
        ELSE /\ UNCHANGED <<sessions, fullLog>>
             /\ last_call' = (Call("add", client_id, 0))

DoAddInteraction(client_id, user_message, ai_response, confidence) ==
    LET sid == DictGet(active_sessions, client_id)
    IN  IF sid # 0
        THEN /\ sessions' = [sessions EXCEPT
                    ![sid] = add_interaction(@, user_message, ai_response, confidence, now)]
             /\ fullLog' = [fullLog EXCEPT ![sid] = @ \o
                    <<UserTurn(user_message, confidence, now), AssistantTurn(ai_response, now)>>]
             /\ last_call' = (Call("add", client_id, 1))
        ELSE /\ UNCHANGED <<sessions, fullLog>>
             /\ last_call' = (Call("add", client_id, 0))

\* the number of turns in a sequence of logs
RECURSIVE TurnsIn(_)
TurnsIn(logs) == IF logs = <<>> THEN 0 ELSE Len(Head(logs)) + TurnsIn(Tail(logs))

manager_add_interaction(client_id) ==
    /\ \E m \in ManagerMessages, r \in Replies, conf \in {DEFAULT_CONFIDENCE} :
          /\ DictGet(active_sessions, client_id) # 0 => TurnsIn(fullLog) < 2 * MaxExchanges
          /\ DoAddInteraction(client_id, m, r, conf)
    /\ UNCHANGED <<active_sessions, session_history, now, pipelineVars, appVars>>

Tick ==
    /\ now < MaxTime
    /\ now' = now + 1
    /\ UNCHANGED <<managerVars, pipelineVars, appVars>>

----------------------------------------------------------------------------
(* VoicePipeline session context *)

SessionContext == [history |-> <<>>, user_id |-> None, total_interactions |-> 0]

\* the mutant stores a new context whether the session has one or not
get_session_context_reset(ps, session_id) ==
    [s \in DOMAIN ps \cup {session_id} |->
        IF s = session_id THEN SessionContext ELSE ps[s]]

\* _get_session_context: the context map after the call (an entry is created on first use)
get_session_context(ps, session_id) ==
    IF session_id \notin DOMAIN ps THEN ps @@ (session_id :> SessionContext) ELSE ps

\* the mutant keeps one turn less than the cap
TruncateContextHistory_odd(h) ==
    IF Len(h) > CONTEXT_HISTORY_CAP THEN LastN(h, CONTEXT_HISTORY_CAP - 1) ELSE h

\* the mutant hands out the turns of every session the pipeline holds
HistoryOf_every_session(ps, session_id) ==
    LET RECURSIVE Turns(_)
        Turns(ids) == IF ids = {} THEN <<>>
                      ELSE LET id == CHOOSE i \in ids : \A j \in ids : i <= j
                           IN  ps[id].history \o Turns(ids \ {id})
    IN  Turns(DOMAIN ps)

\* session_context.get("history", []) on the context of the session (lines 92, 99)
HistoryOf(ps, session_id) == ps[session_id].history

TruncateContextHistory(h) ==
    IF Len(h) > CONTEXT_HISTORY_CAP THEN LastN(h, CONTEXT_HISTORY_CAP) ELSE h

ContextTurns(user_message, ai_response) ==
    <<[role |-> "user", content |-> user_message],
      [role |-> "assistant", content |-> ai_response]>>

\* the turns logged for a session id, and the log with more turns for it
LogOf(log, session_id) == IF session_id \in DOMAIN log THEN log[session_id] ELSE <<>>
LogTurns(log, session_id, turns) ==
    IF session_id \in DOMAIN log THEN [log EXCEPT ![session_id] = @ \o turns]
    ELSE log @@ (session_id :> turns)

\* _update_session_context: the context map after the call
update_session_context(ps, session_id, user_message, ai_response) ==
    LET got == get_session_context(ps, session_id)
        h == got[session_id].history \o ContextTurns(user_message, ai_response)
    IN  [got EXCEPT ![session_id].history = TruncateContextHistory(h),
                    ![session_id].total_interactions = @ + 1]

----------------------------------------------------------------------------
(* The service wrappers.  What the provider SDK behind a wrapper does is an  *)
(* input: it returns something or it raises.  A wrapper's result is          *)
(* [raised, value]: raised is TRUE when the wrapper lets an exception out.   *)

Returned(v) == [raised |-> FALSE, value |-> v]
Raised == [raised |-> TRUE, value |-> None]

NoAudio == [speech |-> None]
Audio(text) == [speech |-> text]

NoTranscription == [is_none |-> TRUE, transcript |-> "", confidence |-> 0]
Transcription(transcript, confidence) ==
    [is_none |-> FALSE, transcript |-> transcript, confidence |-> confidence]

\* what the Deepgram connection does with a chunk: send() raises, or the event
\* handlers fill in the transcript and its confidence ("" / 0 when they have not)
TranscriptionOutcomes ==
    {[kind |-> "raise"]} \cup {[kind |-> "ok", transcript |-> "", confidence |-> 0]}
    \cup {[kind |-> "ok", transcript |-> m, confidence |-> c] :
             m \in Messages, c \in Confidences \ {0}}

\* DeepgramService.transcribe_audio_chunk
transcribe_audio_chunk(outcome) ==
    IF outcome.kind = "raise" THEN Returned(NoTranscription)
    ELSE Returned(Transcription(outcome.transcript, outcome.confidence))

\* what the vector store does with a query: raises, finds nothing, finds documents
RetrievalOutcomes == {"raise", "empty", "found"}

\* the mutant lets the exception of the vector store out of the wrapper
retrieve_context_reraise(outcome) ==
    IF outcome = "found" THEN Returned("Company Policy: bills are issued monthly")
    ELSE IF outcome = "raise" THEN Raised
    ELSE Returned("")

\* RAGService.retrieve_context
retrieve_context(outcome) ==
    IF outcome = "found" THEN Returned("Company Policy: bills are issued monthly")
    ELSE Returned("")

\* what the Groq client does: raises, returns no choices, or a choice with a content
GenerationOutcomes ==
    {[kind |-> "raise"], [kind |-> "no_choices"]}
    \cup {[kind |-> "ok", content |-> r] : r \in Replies \cup {"", None}}

\* the mutant lets the client's exception out of the wrapper
generate_response_reraise(outcome) ==
    IF outcome.kind = "raise" THEN Raised
    ELSE IF outcome.kind = "no_choices" THEN Returned(None)
    ELSE Returned(outcome.content)

\* what the client did, as one word
GenerationKind(outcome) ==
    IF outcome.kind = "raise" THEN "raise"
    ELSE IF outcome.kind = "no_choices" \/ outcome.content = None THEN "none"
    ELSE IF outcome.content = "" THEN "empty"
    ELSE "reply"

\* GroqService.generate_response
generate_response(outcome) ==
    IF outcome.kind = "ok" THEN Returned(outcome.content) ELSE Returned(None)

\* GroqService.optimize_for_voice on the reply texts of the model: markdown
\* markers removed, "$" spelled out, a pause after ". "
optimize_for_voice(text) ==
    CASE text = "Your bill is **$42**. Anything else?" ->
             "Your bill is dollars42. ... Anything else?"
      [] text = FALLBACK_TEXT ->
             "I apologize, but I'm having trouble processing your request right now. ... Could you please try again?"
      [] OTHER -> text

\* what ElevenLabs generate() does: raises, or yields the audio of the text
SynthesisOutcomes == {"raise", "ok"}

\* the mutant lets the exception of generate() out of the wrapper
text_to_speech_reraise(outcome, text) ==
    IF outcome = "ok" THEN Returned(Audio(text)) ELSE Raised

\* ElevenLabsService.text_to_speech
text_to_speech(outcome, text) ==
    IF outcome = "ok" THEN Returned(Audio(text)) ELSE Returned(NoAudio)

----------------------------------------------------------------------------
(* VoicePipeline.process_audio_chunk, one action per await *)

VoiceResponse(audio_data, transcript, ai_response, confidence, processing_time, session_id) ==
    [audio_data |-> audio_data, transcript |-> transcript, ai_response |-> ai_response,
     confidence |-> confidence, processing_time |-> processing_time,
     session_id |-> session_id]

NoResponse == VoiceResponse(NoAudio, None, None, -1, -1, 0)

\* the frame of a call: its position, its locals, the conversation_history
\* argument of the retrieve_context or generate_response call it awaits, what
\* it returned, and (history) which capabilities it invoked, what
\* transcribe_audio_chunk returned to it and what the Groq client did for it
Frame(pc, session_id, start_time) ==
    [pc |-> pc, session_id |-> session_id, start_time |-> start_time,
     transcript |-> None, confidence |-> 0, rag_context |-> None, ai_response |-> None,
     conversation_history |-> <<>>,
     processing_time |-> -1, response |-> NoResponse,
     invoked |-> {}, heard |-> NoTranscription, generation |-> None]

IdleFrame == Frame("idle", 0, 0)

\* the call awaits a capability
Await(frame, pc, capability) ==
    [frame EXCEPT !.pc = pc, !.invoked = @ \cup {capability}]

\* the except clause of process_audio_chunk up to its await (lines 128-134)
ExceptionHandler(frame) ==
    [Await(frame, "error", "synthesis") EXCEPT
        !.processing_time = now - frame.start_time]

\* return statement: the coroutine is finished with this response, its locals are gone
Return(frame, response) ==
    [Frame("done", frame.session_id, frame.start_time) EXCEPT
        !.response = response, !.invoked = frame.invoked,
        !.heard = frame.heard, !.generation = frame.generation]

\* the mutant gates a confidence equal to the threshold as well
LowConfidence_inclusive(confidence) == confidence <= min_confidence_threshold

\* line 81
LowConfidence(confidence) == confidence < min_confidence_threshold

\* the mutant takes any generated value, None and "" included
ReplyOrFallback_no_fallback(ai_response) == ai_response

\* lines 103-105
ReplyOrFallback(ai_response) ==
    IF ai_response = None \/ ai_response = "" THEN FALLBACK_TEXT ELSE ai_response

\* the mutant tests the result for None only
NothingHeard_none_only(transcription_result) == transcription_result.is_none

\* line 66
NothingHeard(transcription_result) ==
    transcription_result.is_none \/ transcription_result.transcript = ""

\* lines 68-75
EmptyResponse(frame) ==
    VoiceResponse(NoAudio, "", "", 0, now - frame.start_time, frame.session_id)

\* lines 59-64: the call starts and awaits the transcription
StartCall(k, session_id) ==
    /\ calls[k].pc = "idle"
    /\ calls' = [calls EXCEPT ![k] =
          Await(Frame("idle", session_id, now), "transcribe", "transcription")]
    /\ UNCHANGED <<managerVars, now, pipe_sessions, stream, pipeLog, appVars>>

\* lines 64-93: the transcription returns; empty result, clarification, or on to
\* the retrieval
TranscribeReturns(k) ==
    /\ calls[k].pc = "transcribe"
    /\ \E outcome \in TranscriptionOutcomes :
          LET r == transcribe_audio_chunk(outcome)
              f == [calls[k] EXCEPT
                       !.heard = IF r.raised THEN NoTranscription ELSE r.value]
          IN  IF r.raised
              THEN /\ calls' = [calls EXCEPT ![k] = ExceptionHandler(f)]
                   /\ UNCHANGED pipe_sessions
              ELSE IF NothingHeard(r.value)
              THEN /\ calls' = [calls EXCEPT ![k] = Return(f, EmptyResponse(f))]
                   /\ UNCHANGED pipe_sessions
              ELSE IF LowConfidence(r.value.confidence)
              THEN /\ calls' = [calls EXCEPT ![k] =
                          [Await(f, "clarify", "synthesis") EXCEPT
                                    !.transcript = r.value.transcript,
                                    !.confidence = r.value.confidence]]
                   /\ UNCHANGED pipe_sessions
              ELSE /\ pipe_sessions' = get_session_context(pipe_sessions, f.session_id)
                   /\ calls' = [calls EXCEPT ![k] =
                          [Await(f, "retrieve", "retrieval") EXCEPT
                                    !.transcript = r.value.transcript,
                                    !.confidence = r.value.confidence,
                                    !.conversation_history =
                                        HistoryOf(pipe_sessions', f.session_id)]]
    /\ UNCHANGED <<managerVars, now, stream, pipeLog, appVars>>

\* lines 89-101: the retrieval returns; on to the generation
RetrieveReturns(k) ==
    /\ calls[k].pc = "retrieve"
    /\ \E outcome \in RetrievalOutcomes :
          LET r == retrieve_context(outcome)
              f == calls[k]
          IN  calls' = [calls EXCEPT ![k] =
                  IF r.raised THEN ExceptionHandler(f)
                  ELSE [Await(f, "generate", "generation") EXCEPT
                           !.rag_context = r.value,
                           !.conversation_history =
                               HistoryOf(pipe_sessions, f.session_id)]]
    /\ UNCHANGED <<managerVars, now, pipe_sessions, stream, pipeLog, appVars>>

\* lines 96-111: the generation returns; fallback text if there is no reply; on
\* to the synthesis of the voice-optimized reply
GenerateReturns(k) ==
    /\ calls[k].pc = "generate"
    /\ \E outcome \in GenerationOutcomes :
          LET r == generate_response(outcome)
              f == [calls[k] EXCEPT !.generation = GenerationKind(outcome)]
          IN  calls' = [calls EXCEPT ![k] =
                  IF r.raised THEN ExceptionHandler(f)
                  ELSE [Await(f, "synthesize", "synthesis") EXCEPT
                           !.ai_response = ReplyOrFallback(r.value),
                           !.conversation_history = <<>>]]
    /\ UNCHANGED <<managerVars, now, pipe_sessions, stream, pipeLog, appVars>>

\* the text handed to text_to_speech at each of its three call sites
\* (lines 111, 224, 134)
TextToSynthesize(frame) ==
    CASE frame.pc = "synthesize" -> optimize_for_voice(frame.ai_response)
      [] frame.pc = "clarify" -> CLARIFICATION_TEXT
      [] frame.pc = "error" -> ERROR_TEXT

\* the mutant replaces the history of the session by the turns of the call
RecordExchange_replace_history(ps, frame) ==
    [get_session_context(ps, frame.session_id) EXCEPT
        ![frame.session_id].history = ContextTurns(frame.transcript, frame.ai_response),
        ![frame.session_id].total_interactions = @ + 1]

\* line 114
RecordExchange(ps, frame) ==
    update_session_context(ps, frame.session_id, frame.transcript, frame.ai_response)

\* the mutant returns the text of the exchange only together with its audio
SuccessResponse_needs_audio(frame, audio_response) ==
    IF audio_response = NoAudio
    THEN VoiceResponse(NoAudio, "", "", 0, now - frame.start_time, frame.session_id)
    ELSE VoiceResponse(audio_response, frame.transcript, frame.ai_response,
                       frame.confidence, now - frame.start_time, frame.session_id)

\* lines 116-126
SuccessResponse(frame, audio_response) ==
    VoiceResponse(audio_response, frame.transcript, frame.ai_response,
                  frame.confidence, now - frame.start_time, frame.session_id)

\* the mutant hands back what was heard with the clarification
ClarificationResponse_with_transcript(frame, clarification_audio) ==
    VoiceResponse(clarification_audio, frame.transcript, CLARIFICATION_TEXT,
                  frame.confidence, now - frame.start_time, frame.session_id)

\* _generate_clarification_response, lines 226-233
ClarificationResponse(frame, clarification_audio) ==
    VoiceResponse(clarification_audio, "", CLARIFICATION_TEXT, 0,
                  now - frame.start_time, frame.session_id)

\* lines 111-126, 224-233 and 134-143: the synthesis returns.  In the main path
\* the session context is updated and the response returned; in the
\* clarification and in the except clause the fixed response is returned.  An
\* exception out of the synthesis enters the except clause from the try block
\* and leaves the coroutine from the except clause.
SynthesizeReturns(k) ==
    /\ calls[k].pc \in {"synthesize", "clarify", "error"}
    /\ \E outcome \in SynthesisOutcomes :
          LET r == text_to_speech(outcome, TextToSynthesize(calls[k]))
              f == calls[k]
          IN  IF r.raised
              THEN /\ calls' = [calls EXCEPT ![k] =
                          IF f.pc = "error"
                          THEN [Frame("raised", f.session_id, f.start_time)
                                   EXCEPT !.invoked = f.invoked, !.heard = f.heard,
                                          !.generation = f.generation]
                          ELSE ExceptionHandler(f)]
                   /\ UNCHANGED <<pipe_sessions, pipeLog>>
              ELSE IF f.pc = "synthesize"
              THEN /\ pipe_sessions' = RecordExchange(pipe_sessions, f)
                   /\ pipeLog' = LogTurns(pipeLog, f.session_id,
                                           ContextTurns(f.transcript, f.ai_response))
                   /\ calls' = [calls EXCEPT ![k] = Return(f, SuccessResponse(f, r.value))]
              ELSE IF f.pc = "clarify"
              THEN /\ calls' = [calls EXCEPT ![k] =
                          Return(f, ClarificationResponse(f, r.value))]
                   /\ UNCHANGED <<pipe_sessions, pipeLog>>
              ELSE /\ calls' = [calls EXCEPT ![k] = Return(f,
                          VoiceResponse(r.value, "", ERROR_TEXT, 0,
                                        f.processing_time, f.session_id))]
                   /\ UNCHANGED <<pipe_sessions, pipeLog>>
    /\ UNCHANGED <<managerVars, now, stream, appVars>>

----------------------------------------------------------------------------
(* Texts as Python sees them: a text is the sequence of its characters *)

\* the characters of the texts of the model
Chars(text) ==
    CASE text = "what is my bill" ->
             <<"w", "h", "a", "t", " ", "i", "s", " ", "m", "y", " ", "b", "i", "l", "l">>
      [] text = "reset my password" ->
             <<"r", "e", "s", "e", "t", " ", "m", "y", " ", "p", "a", "s", "s", "w", "o", "r", "d">>
      [] text = "what is my bill amount" ->
             <<"w", "h", "a", "t", " ", "i", "s", " ", "m", "y", " ", "b", "i", "l", "l", " ", "a", "m", "o", "u", "n", "t">>
      [] text = "what is my billing date" ->
             <<"w", "h", "a", "t", " ", "i", "s", " ", "m", "y", " ", "b", "i", "l", "l", "i", "n", "g", " ", "d", "a", "t", "e">>
      [] text = "so what is my bill" ->
             <<"s", "o", " ", "w", "h", "a", "t", " ", "i", "s", " ", "m", "y", " ", "b", "i", "l", "l">>
      [] text = "what is my" ->
             <<"w", "h", "a", "t", " ", "i", "s", " ", "m", "y">>
      [] text = "What's my bill?" ->
             <<"W", "h", "a", "t", "'", "s", " ", "m", "y", " ", "b", "i", "l", "l", "?">>
      [] text = "help me" ->
             <<"h", "e", "l", "p", " ", "m", "e">>
      [] text = "hello there" ->
             <<"h", "e", "l", "l", "o", " ", "t", "h", "e", "r", "e">>
      [] text = "cancel my account, stop it" ->
             <<"c", "a", "n", "c", "e", "l", " ", "m", "y", " ", "a", "c", "c", "o", "u", "n", "t", ",", " ", "s", "t", "o", "p", " ", "i", "t">>
      [] text = "my friend is pending" ->
             <<"m", "y", " ", "f", "r", "i", "e", "n", "d", " ", "i", "s", " ", "p", "e", "n", "d", "i", "n", "g">>
      \* the keywords of _classify_intent
      [] text = "bill" ->
             <<"b", "i", "l", "l">>
      [] text = "charge" ->
             <<"c", "h", "a", "r", "g", "e">>
      [] text = "payment" ->
             <<"p", "a", "y", "m", "e", "n", "t">>
      [] text = "invoice" ->
             <<"i", "n", "v", "o", "i", "c", "e">>
      [] text = "cost" ->
             <<"c", "o", "s", "t">>
      [] text = "price" ->
             <<"p", "r", "i", "c", "e">>
      [] text = "fee" ->
             <<"f", "e", "e">>
      [] text = "not working" ->
             <<"n", "o", "t", " ", "w", "o", "r", "k", "i", "n", "g">>
      [] text = "error" ->
             <<"e", "r", "r", "o", "r">>
      [] text = "problem" ->
             <<"p", "r", "o", "b", "l", "e", "m">>
      [] text = "issue" ->
             <<"i", "s", "s", "u", "e">>
      [] text = "broken" ->
             <<"b", "r", "o", "k", "e", "n">>
      [] text = "fix" ->
             <<"f", "i", "x">>
      [] text = "help" ->
             <<"h", "e", "l", "p">>
      [] text = "login" ->
             <<"l", "o", "g", "i", "n">>
      [] text = "password" ->
             <<"p", "a", "s", "s", "w", "o", "r", "d">>
      [] text = "account" ->
             <<"a", "c", "c", "o", "u", "n", "t">>
      [] text = "access" ->
             <<"a", "c", "c", "e", "s", "s">>
      [] text = "locked" ->
             <<"l", "o", "c", "k", "e", "d">>
      [] text = "reset" ->
             <<"r", "e", "s", "e", "t">>
      [] text = "what is" ->
             <<"w", "h", "a", "t", " ", "i", "s">>
      [] text = "how does" ->
             <<"h", "o", "w", " ", "d", "o", "e", "s">>
      [] text = "features" ->
             <<"f", "e", "a", "t", "u", "r", "e", "s">>
      [] text = "benefits" ->
             <<"b", "e", "n", "e", "f", "i", "t", "s">>
      [] text = "compare" ->
             <<"c", "o", "m", "p", "a", "r", "e">>
      [] text = "cancel" ->
             <<"c", "a", "n", "c", "e", "l">>
      [] text = "unsubscribe" ->
             <<"u", "n", "s", "u", "b", "s", "c", "r", "i", "b", "e">>
      [] text = "terminate" ->
             <<"t", "e", "r", "m", "i", "n", "a", "t", "e">>
      [] text = "end" ->
             <<"e", "n", "d">>
      [] text = "stop" ->
             <<"s", "t", "o", "p">>
      [] text = "angry" ->
             <<"a", "n", "g", "r", "y">>
      [] text = "frustrated" ->
             <<"f", "r", "u", "s", "t", "r", "a", "t", "e", "d">>
      [] text = "disappointed" ->
             <<"d", "i", "s", "a", "p", "p", "o", "i", "n", "t", "e", "d">>
      [] text = "terrible" ->
             <<"t", "e", "r", "r", "i", "b", "l", "e">>
      [] text = "awful" ->
             <<"a", "w", "f", "u", "l">>
      [] text = "bad" ->
             <<"b", "a", "d">>
      [] text = "great" ->
             <<"g", "r", "e", "a", "t">>
      [] text = "excellent" ->
             <<"e", "x", "c", "e", "l", "l", "e", "n", "t">>
      [] text = "amazing" ->
             <<"a", "m", "a", "z", "i", "n", "g">>
      [] text = "wonderful" ->
             <<"w", "o", "n", "d", "e", "r", "f", "u", "l">>
      [] text = "love" ->
             <<"l", "o", "v", "e">>
      [] text = "perfect" ->
             <<"p", "e", "r", "f", "e", "c", "t">>
      [] text = "question" ->
             <<"q", "u", "e", "s", "t", "i", "o", "n">>
      [] text = "ask" ->
             <<"a", "s", "k">>
      [] text = "wondering" ->
             <<"w", "o", "n", "d", "e", "r", "i", "n", "g">>
      [] text = "curious" ->
             <<"c", "u", "r", "i", "o", "u", "s">>
      [] text = "information" ->
             <<"i", "n", "f", "o", "r", "m", "a", "t", "i", "o", "n">>
      [] text = "thank you" ->
             <<"t", "h", "a", "n", "k", " ", "y", "o", "u">>
      [] text = "this is bad" ->
             <<"t", "h", "i", "s", " ", "i", "s", " ", "b", "a", "d">>
      [] text = "charge my account for the bill" ->
             <<"c", "h", "a", "r", "g", "e", " ", "m", "y", " ", "a", "c", "c", "o", "u", "n", "t", " ", "f", "o", "r", " ", "t", "h", "e", " ", "b", "i", "l", "l">>
      [] text = "good but awful" ->
             <<"g", "o", "o", "d", " ", "b", "u", "t", " ", "a", "w", "f", "u", "l">>
      [] text = "profile" ->
             <<"p", "r", "o", "f", "i", "l", "e">>
      [] text = "settings" ->
             <<"s", "e", "t", "t", "i", "n", "g", "s">>
      [] text = "personal" ->
             <<"p", "e", "r", "s", "o", "n", "a", "l">>
      [] text = "feature" ->
             <<"f", "e", "a", "t", "u", "r", "e">>
      [] text = "how to" ->
             <<"h", "o", "w", " ", "t", "o">>
      [] text = "can i" ->
             <<"c", "a", "n", " ", "i">>
      [] text = "does it" ->
             <<"d", "o", "e", "s", " ", "i", "t">>
      [] text = "service" ->
             <<"s", "e", "r", "v", "i", "c", "e">>
      [] text = "support" ->
             <<"s", "u", "p", "p", "o", "r", "t">>
      [] text = "assistance" ->
             <<"a", "s", "s", "i", "s", "t", "a", "n", "c", "e">>
      [] text = "thank" ->
             <<"t", "h", "a", "n", "k">>
      [] text = "good" ->
             <<"g", "o", "o", "d">>
      [] text = "helpful" ->
             <<"h", "e", "l", "p", "f", "u", "l">>

Letters == {"a", "b", "c", "d", "e", "f", "g", "h", "i", "j", "k", "l", "m",
            "n", "o", "p", "q", "r", "s", "t", "u", "v", "w", "x", "y", "z"}
Digits == {"0", "1", "2", "3", "4", "5", "6", "7", "8", "9"}

\* str.lower on the characters of the model's texts
LowerChar(c) ==
    CASE c = "W" -> "w"
      [] OTHER -> c

Lower(t) == [i \in 1..Len(t) |-> LowerChar(t[i])]

IsSpace(c) == c = " "

\* \w of the regular expression: a letter, a digit or the underscore
IsWordChar(c) == c \in Letters \cup Digits \cup {"_", "W"}

\* str.strip
Strip(t) ==
    LET solid == {i \in 1..Len(t) : ~IsSpace(t[i])}
    IN  IF solid = {} THEN <<>>
        ELSE SubSeq(t, CHOOSE i \in solid : \A j \in solid : i <= j,
                       CHOOSE i \in solid : \A j \in solid : j <= i)

\* re.sub(r'[^\w\s]', '', t)
RemovePunctuation(t) == SelectSeq(t, LAMBDA c : IsWordChar(c) \/ IsSpace(c))

\* str.split(): the maximal runs of non-space characters, in order
RECURSIVE SplitFrom(_, _, _)
SplitFrom(t, word, words) ==
    IF t = <<>> THEN (IF word = <<>> THEN words ELSE Append(words, word))
    ELSE IF IsSpace(Head(t))
         THEN SplitFrom(Tail(t), <<>>, IF word = <<>> THEN words ELSE Append(words, word))
         ELSE SplitFrom(Tail(t), Append(word, Head(t)), words)

Split(t) == SplitFrom(t, <<>>, <<>>)

\* ' '.join(words)
RECURSIVE Join(_)
Join(words) ==
    IF words = <<>> THEN <<>>
    ELSE IF Len(words) = 1 THEN Head(words)
    ELSE Head(words) \o <<" ">> \o Join(Tail(words))

\* p in t, for two texts
IsSubstring(p, t) ==
    \E i \in 0..(Len(t) - Len(p)) : SubSeq(t, i + 1, i + Len(p)) = p

\* Python's slice seq[:n] for n >= 0
FirstN(seq, n) == IF Len(seq) <= n THEN seq ELSE SubSeq(seq, 1, n)

\* num / den rounded to the nearest integer, a tie to the even one; round(x, 2)
\* is RoundRatio of the hundredths of x (a quotient of the model has a tie only
\* when its denominator is a multiple of 8)
RoundRatio(num, den) ==
    LET q == num \div den
        r == num % den
    IN  IF 2 * r < den THEN q
        ELSE IF 2 * r > den THEN q + 1
        ELSE IF q % 2 = 0 THEN q ELSE q + 1

----------------------------------------------------------------------------
(* AnalyticsService *)

\* _update_question_patterns, lines 132-139: the pattern of a question, <<>>
\* when it has fewer than three words
PatternOf(question) ==
    LET words == Split(RemovePunctuation(Lower(question)))
    IN  IF Len(words) >= 3 THEN Join(FirstN(words, 3)) ELSE <<>>

\* the mutant stores 1 instead of incrementing
update_question_patterns_no_increment(patterns, question) ==
    LET pattern == PatternOf(question)
    IN  IF pattern # <<>> THEN DictSet(patterns, pattern, 1) ELSE patterns

update_question_patterns(patterns, question) ==
    LET pattern == PatternOf(question)
    IN  IF pattern # <<>> THEN DictSet(patterns, pattern, DictGet(patterns, pattern) + 1)
        ELSE patterns

\* _classify_intent, lines 87-96: the intents in the order of the dict, each
\* with its keywords
intent_patterns ==
    <<[intent |-> "billing_inquiry",
      keywords |-> <<"bill", "charge", "payment", "invoice", "cost", "price", "fee">>],
     [intent |-> "technical_support",
      keywords |-> <<"not working", "error", "problem", "issue", "broken", "fix", "help">>],
     [intent |-> "account_access",
      keywords |-> <<"login", "password", "account", "access", "locked", "reset">>],
     [intent |-> "product_information",
      keywords |-> <<"what is", "how does", "features", "benefits", "compare">>],
     [intent |-> "cancellation",
      keywords |-> <<"cancel", "unsubscribe", "terminate", "end", "stop">>],
     [intent |-> "complaint",
      keywords |-> <<"angry", "frustrated", "disappointed", "terrible", "awful", "bad">>],
     [intent |-> "compliment",
      keywords |-> <<"great", "excellent", "amazing", "wonderful", "love", "perfect">>],
     [intent |-> "general_question",
      keywords |-> <<"question", "ask", "wondering", "curious", "information">>]>>

\* line 101: the keywords that occur in the message
Score(keywords, message) ==
    Len(SelectSeq(keywords, LAMBDA keyword : IsSubstring(Chars(keyword), message)))

\* lines 99-103: the dict intent_scores of the intents that score above 0
intent_scores(message) ==
    LET scored == [i \in 1..Len(intent_patterns) |->
                      [key |-> intent_patterns[i].intent,
                       value |-> Score(intent_patterns[i].keywords, message)]]
    IN  SelectSeq(scored, LAMBDA e : e.value > 0)

RECURSIVE MaxKey_last(_, _)
\* the mutant takes the last of the entries of the highest value
MaxKey_last(best, rest) ==
    IF rest = <<>> THEN best.key
    ELSE MaxKey_last(IF Head(rest).value >= best.value THEN Head(rest) ELSE best, Tail(rest))

RECURSIVE MaxKey(_, _)
\* max(d, key=d.get) on the entries of a dict: the first entry of the highest
\* value (best is the highest so far)
MaxKey(best, rest) ==
    IF rest = <<>> THEN best.key
    ELSE MaxKey(IF Head(rest).value > best.value THEN Head(rest) ELSE best, Tail(rest))

\* _classify_intent
classify_intent(message) ==
    LET scores == intent_scores(Lower(message))
    IN  IF scores # <<>> THEN MaxKey(Head(scores), Tail(scores)) ELSE "general_question"

\* _categorize_question, lines 115-122: the categories in the order of the
\* dict, each with its keywords
categories ==
    <<[category |-> "account_management",
      keywords |-> <<"account", "profile", "settings", "personal">>],
     [category |-> "billing_payment",
      keywords |-> <<"bill", "payment", "charge", "invoice", "cost">>],
     [category |-> "technical_issues",
      keywords |-> <<"error", "problem", "not working", "broken", "issue">>],
     [category |-> "product_features",
      keywords |-> <<"feature", "how to", "what is", "can i", "does it">>],
     [category |-> "service_inquiry",
      keywords |-> <<"service", "support", "help", "assistance">>],
     [category |-> "other", keywords |-> <<>>]>>

\* line 125: any(keyword in question for keyword in keywords)
AnyKeyword(keywords, question) ==
    \E i \in 1..Len(keywords) : IsSubstring(Chars(keywords[i]), question)

\* _categorize_question, lines 124-128: the first category, in the order of the
\* dict, that has a keyword in the lower-cased question
categorize_question(question) ==
    LET message == Lower(question)
        matching == {i \in 1..Len(categories) : AnyKeyword(categories[i].keywords, message)}
    IN  IF matching # {}
        THEN categories[CHOOSE i \in matching : \A j \in matching : i <= j].category
        ELSE "other"

\* one round of the loop of _process_interactions
ProcessInteraction(state, interaction, session_id) ==
    IF interaction.role = "user"
    THEN LET question == Strip(Lower(Chars(interaction.content)))
         IN  [logs |-> Append(state.logs,
                          [session_id |-> session_id, timestamp |-> interaction.timestamp,
                           user_message |-> question,
                           confidence |-> interaction.confidence,
                           intent |-> classify_intent(question),
                           question_category |-> categorize_question(question)]),
              patterns |-> update_question_patterns(state.patterns, question)]
    ELSE state

\* the mutant leaves the loop after the first turn
process_interactions_first_turn(state, conversation_history, session_id) ==
    IF conversation_history = <<>> THEN state
    ELSE ProcessInteraction(state, Head(conversation_history), session_id)

RECURSIVE process_interactions(_, _, _)
process_interactions(state, conversation_history, session_id) ==
    IF conversation_history = <<>> THEN state
    ELSE process_interactions(ProcessInteraction(state, Head(conversation_history), session_id),
                              Tail(conversation_history), session_id)

\* get_duration, conversation.py lines 50-53
get_duration(session) ==
    (IF session.end_time # NoTime THEN session.end_time ELSE now) - session.start_time

\* the call_data record of save_call_data
CallData(session) ==
    [session_id |-> session.id, client_id |-> session.client_id,
     user_id |-> session.user_id, start_time |-> session.start_time,
     end_time |-> IF session.end_time # NoTime THEN session.end_time ELSE now,
     duration |-> get_duration(session),
     total_interactions |-> session.total_interactions,
     status |-> session.status,
     conversation_history |-> session.conversation_history]

\* save_call_data
save_call_data(session) ==
    LET processed == process_interactions(
                        [logs |-> interaction_logs, patterns |-> question_patterns],
                        session.conversation_history, session.id)
    IN  /\ call_logs' = Append(call_logs, CallData(session))
        /\ interaction_logs' = processed.logs
        /\ question_patterns' = processed.patterns

RECURSIVE SumOf(_, _)
\* sum(call[field] for call in logs)
SumOf(logs, field) ==
    IF logs = <<>> THEN 0 ELSE Head(logs)[field] + SumOf(Tail(logs), field)

\* the mutant counts every call that did not end in an error
SuccessfulCalls_not_error(logs) == Len(SelectSeq(logs, LAMBDA call : call.status # "error"))

\* line 172
SuccessfulCalls(logs) == Len(SelectSeq(logs, LAMBDA call : call.status = "ended"))

\* _get_error_rate, in hundredths of a percent
get_error_rate(logs) ==
    IF logs = <<>> THEN 0
    ELSE RoundRatio(10000 * Len(SelectSeq(logs, LAMBDA call : call.status = "error")),
                    Len(logs))

\* datetime.hour of a start_time: the clock counts seconds from a midnight
HourOf(t) == (t \div 3600) % 24

RECURSIVE hour_distribution(_, _)
\* lines 174-177: the dict hour -> calls started in that hour, filled in the
\* order of the call log (distribution is the dict so far)
hour_distribution(distribution, logs) ==
    IF logs = <<>> THEN distribution
    ELSE LET hour == HourOf(Head(logs).start_time)
         IN  hour_distribution(DictSet(distribution, hour, DictGet(distribution, hour) + 1),
                               Tail(logs))

\* line 179: max(hour_distribution, key=hour_distribution.get)
peak_hour(logs) ==
    LET distribution == hour_distribution(<<>>, logs)
    IN  IF distribution # <<>> THEN MaxKey(Head(distribution), Tail(distribution)) ELSE 0

\* _estimate_user_satisfaction, lines 366 and 370
positive_words == <<"thank", "great", "good", "helpful", "perfect">>
negative_words == <<"bad", "terrible", "awful", "frustrated", "angry">>

\* the logged messages that have one of the words
Indicators(logs, words) ==
    Len(SelectSeq(logs, LAMBDA log : AnyKeyword(words, Lower(log.user_message))))

\* _estimate_user_satisfaction on the interaction log, in hundredths of a percent
estimate_user_satisfaction(logs) ==
    IF logs = <<>> THEN 0
    ELSE LET positive_indicators == Indicators(logs, positive_words)
             negative_indicators == Indicators(logs, negative_words)
             total_indicators == positive_indicators + negative_indicators
         IN  IF total_indicators = 0 THEN 7500
             ELSE RoundRatio(10000 * positive_indicators, total_indicators)

\* _get_empty_analytics: the overview and performance figures
get_empty_analytics ==
    [total_calls |-> 0, average_duration |-> 0, average_interactions |-> 0,
     success_rate |-> 0, peak_hour |-> 0, error_rate |-> 0, user_satisfaction |-> 0]

\* get_call_analytics on the call log logs: the overview and performance
\* figures that are computed from the logs; averages and rates are in hundredths
get_call_analytics(logs) ==
    IF logs = <<>> THEN get_empty_analytics
    ELSE LET total_calls == Len(logs)
         IN  [total_calls |-> total_calls,
              average_duration |-> RoundRatio(100 * SumOf(logs, "duration"), total_calls),
              average_interactions |->
                  RoundRatio(100 * SumOf(logs, "total_interactions"), total_calls),
              success_rate |-> RoundRatio(10000 * SuccessfulCalls(logs), total_calls),
              peak_hour |-> peak_hour(logs),
              error_rate |-> get_error_rate(logs),
              user_satisfaction |-> estimate_user_satisfaction(interaction_logs)]

RECURSIVE most_common(_)
\* Counter.most_common: the items by count descending, items of equal count in
\* the order of the dict
most_common(items) ==
    IF items = <<>> THEN <<>>
    ELSE LET first == CHOOSE i \in 1..Len(items) :
                          /\ \A j \in 1..Len(items) : items[j].value <= items[i].value
                          /\ \A j \in 1..(i - 1) : items[j].value < items[i].value
         IN  <<items[first]>>
             \o most_common(SubSeq(items, 1, first - 1) \o SubSeq(items, first + 1, Len(items)))

\* lines 227-230
ExamplesOf(pattern, logs) ==
    LET matching == SelectSeq(logs, LAMBDA log : IsSubstring(pattern, Lower(log.user_message)))
    IN  FirstN([i \in 1..Len(matching) |-> matching[i].user_message], 3)

\* get_common_questions: the common_patterns of the report, percentages in
\* hundredths (the report of an empty interaction log has none)
common_patterns(logs, patterns, limit) ==
    IF logs = <<>> THEN <<>>
    ELSE LET ranked == FirstN(most_common(patterns), limit)
         IN  [i \in 1..Len(ranked) |->
                 [pattern |-> ranked[i].key,
                  count |-> ranked[i].value,
                  percentage |-> RoundRatio(10000 * ranked[i].value, Len(logs)),
                  examples |-> ExamplesOf(ranked[i].key, logs)]]

----------------------------------------------------------------------------
(* VoicePipeline.process_streaming_audio, an async generator over the        *)
(* transcriptions of DeepgramService.transcribe_streaming                    *)

\* the generator: its position, the transcriptions it has received, the
\* responses it has yielded (each with the position of the transcription it
\* was produced for), the call it awaits
Stream(pc, session_id) ==
    [pc |-> pc, session_id |-> session_id, received |-> <<>>, emitted |-> <<>>, call |-> 0]

IdleStream == Stream("idle", 0)

\* transcribe_streaming, lines 130-137: the transcription yielded for an audio
\* chunk; whether it is final is what the provider's event says
StreamTranscription(is_final) ==
    [transcript |-> "Sample transcription", confidence |-> 95, is_final |-> is_final]

\* the mutant takes every transcription for a final one
IsFinal_always(transcription) == TRUE

\* line 159
IsFinal(transcription) == transcription.is_final

\* process_streaming_audio is called and asks transcribe_streaming for the
\* first transcription
StreamStart(session_id) ==
    /\ stream.pc = "idle"
    /\ stream' = Stream("next", session_id)
    /\ UNCHANGED <<managerVars, now, pipe_sessions, calls, pipeLog, appVars>>

\* lines 158-167: a transcription arrives; a final one starts
\* process_audio_chunk, any other is passed over
StreamReceives(k) ==
    /\ stream.pc = "next"
    /\ Len(stream.received) < MaxStreamEvents
    /\ calls[k].pc = "idle"
    /\ \A j \in 1..(k - 1) : calls[j].pc # "idle"
    /\ \E is_final \in BOOLEAN :
          LET transcription == StreamTranscription(is_final)
              received == Append(stream.received, transcription)
          IN  IF IsFinal(transcription)
              THEN /\ stream' = [stream EXCEPT !.received = received,
                                               !.pc = "processing", !.call = k]
                   /\ calls' = [calls EXCEPT ![k] =
                          Await(Frame("idle", stream.session_id, now),
                                "transcribe", "transcription")]
              ELSE /\ stream' = [stream EXCEPT !.received = received]
                   /\ UNCHANGED calls
    /\ UNCHANGED <<managerVars, now, pipe_sessions, pipeLog, appVars>>

\* lines 167-171: process_audio_chunk returns and its response is yielded; an
\* exception out of it ends the generator in the except clause
StreamYields ==
    /\ stream.pc = "processing"
    /\ calls[stream.call].pc \in {"done", "raised"}
    /\ stream' =
          IF calls[stream.call].pc = "done"
          THEN [stream EXCEPT
                   !.pc = "next", !.call = 0,
                   !.emitted = Append(@, [transcription |-> Len(stream.received),
                                          response |-> calls[stream.call].response])]
          ELSE [stream EXCEPT !.pc = "closed", !.call = 0]
    /\ calls' = [calls EXCEPT ![stream.call] = IdleFrame]
    /\ UNCHANGED <<managerVars, now, pipe_sessions, pipeLog, appVars>>

\* transcribe_streaming is exhausted (the audio stream ended or its except
\* clause was entered): the async for ends
StreamEnds ==
    /\ stream.pc = "next"
    /\ stream' = [stream EXCEPT !.pc = "closed"]
    /\ UNCHANGED <<managerVars, now, pipe_sessions, calls, pipeLog, appVars>>

----------------------------------------------------------------------------
(* main.websocket_endpoint, one action per await *)

\* the frame of a connection: its position, its client id, the id of the session
\* it created and the process_audio_chunk call it awaits
Connection(pc, client_id, session, call) ==
    [pc |-> pc, client_id |-> client_id, session |-> session, call |-> call]

\* lines 83-94: the connection is accepted and registered, its session is
\* created, and it waits for a message
WsConnect(j, client_id) ==
    /\ conns[j].pc = "closed"
    /\ Len(sessions) < MaxSessions
    /\ active_connections' = DictSet(active_connections, client_id, j)
    /\ DoCreateSession(client_id)
    /\ conns' = [conns EXCEPT ![j] =
          Connection("receive", client_id, Len(sessions) + 1, 0)]
    /\ UNCHANGED <<now, pipelineVars, analyticsVars>>

\* lines 94-102: an audio_chunk message arrives and is handed to the pipeline
\* under the id of the connection's session
WsAudioChunk(j, k) ==
    /\ conns[j].pc = "receive"
    /\ calls[k].pc = "idle"
    /\ calls' = [calls EXCEPT ![k] =
          Await(Frame("idle", conns[j].session, now), "transcribe", "transcription")]
    /\ conns' = [conns EXCEPT ![j].pc = "processing", ![j].call = k]
    /\ UNCHANGED <<managerVars, now, pipe_sessions, stream, pipeLog, active_connections,
                   analyticsVars>>

\* lines 133-137: the finally clause
Finally(j) ==
    /\ active_connections' = DictDel(active_connections, conns[j].client_id)
    /\ DoEndSession(conns[j].client_id)
    /\ conns' = [conns EXCEPT ![j].pc = "finished"]
    /\ UNCHANGED <<fullLog, now, pipelineVars, analyticsVars>>

\* json.dumps (line 105) takes None for audio_data and raises TypeError on bytes
JsonSerializable(response) == response.audio_data = NoAudio

\* lines 99-110 and 131-137: the pipeline call is over; its response is sent
\* and the connection waits for the next message, or an exception (of the call,
\* or of json.dumps on the response) ends the connection
WsSendResponse(j) ==
    /\ conns[j].pc = "processing"
    /\ calls[conns[j].call].pc \in {"done", "raised"}
    /\ IF calls[conns[j].call].pc = "done" /\ JsonSerializable(calls[conns[j].call].response)
       THEN /\ conns' = [conns EXCEPT ![j].pc = "receive"]
            /\ UNCHANGED <<managerVars, now, pipelineVars, active_connections,
                           analyticsVars>>
       ELSE Finally(j)

\* lines 120-126: an end_call message arrives; the session is handed to the
\* analytics service and the farewell is being sent
WsEndCall(j) ==
    /\ conns[j].pc = "receive"
    /\ save_call_data(sessions[conns[j].session])
    /\ conns' = [conns EXCEPT ![j].pc = "ending"]
    /\ UNCHANGED <<managerVars, now, pipelineVars, active_connections>>

\* lines 127-137: the farewell is sent (or the send raised) and the loop is left
WsCallEnded(j) ==
    /\ conns[j].pc = "ending"
    /\ Finally(j)

\* lines 94 and 129-137: the client goes away while the connection waits
WsDisconnect(j) ==
    /\ conns[j].pc = "receive"
    /\ Finally(j)

----------------------------------------------------------------------------
(* Initial state: the module-level objects of main.py after construction *)

Init ==
    /\ sessions = <<>>
    /\ active_sessions = <<>>
    /\ session_history = <<>>
    /\ now = 0
    /\ last_call = NoCall
    /\ pipe_sessions = <<>>
    /\ calls = [k \in CallIds |-> IdleFrame]
    /\ stream = IdleStream
    /\ conns = [j \in ConnIds |-> Connection("closed", None, 0, 0)]
    /\ active_connections = <<>>
    /\ call_logs = <<>>
    /\ interaction_logs = <<>>
    /\ question_patterns = <<>>
    /\ fullLog = <<>>
    /\ pipeLog = <<>>

----------------------------------------------------------------------------
(* Window runs: one ConversationSession and one pipeline context, each     *)
(* driven through enough exchanges to pass its cap.                        *)

WindowClient == "c1"
\* the id of the session of the window runs, 0 before it is created
WindowSessionId == DictGet(active_sessions, WindowClient)

\* the text of the k-th utterance of the window runs
Utterance(k) == IF k % 3 = 0 THEN "what is my bill" ELSE "reset my password"

WindowCreate ==
    /\ Len(sessions) = 0
    /\ DoCreateSession(WindowClient)
    /\ UNCHANGED <<now, pipelineVars, appVars>>

\* ConversationManager.add_interaction for the k-th exchange, one clock tick apart
WindowAdd ==
    /\ WindowSessionId # 0
    /\ sessions[WindowSessionId].total_interactions < MaxWindowExchanges
    /\ DoAddInteraction(WindowClient, Utterance(now), "Your bill is **$42**. Anything else?",
                        DEFAULT_CONFIDENCE)
    /\ now' = now + 1
    /\ UNCHANGED <<active_sessions, session_history, pipelineVars, appVars>>

\* _update_session_context with any message
WindowUpdate ==
    /\ WindowSessionId # 0
    /\ Len(LogOf(pipeLog, WindowSessionId)) < 2 * MaxContextExchanges
    /\ \E m \in Messages :
          /\ pipe_sessions' = update_session_context(pipe_sessions, WindowSessionId,
                                                     m, "Your bill is **$42**. Anything else?")
          /\ pipeLog' = LogTurns(pipeLog, WindowSessionId,
                                  ContextTurns(m, "Your bill is **$42**. Anything else?"))
    /\ UNCHANGED <<managerVars, now, calls, stream, appVars>>

WindowNext == WindowCreate \/ WindowAdd \/ WindowUpdate

SpecWindow == Init /\ [][WindowNext]_vars

----------------------------------------------------------------------------
(* Pipeline runs: process_audio_chunk calls, interleaved at their awaits *)

PipelineNext ==
    \/ \E k \in CallIds, sid \in PipelineSessionIds : StartCall(k, sid)
    \/ \E k \in CallIds : TranscribeReturns(k)
    \/ \E k \in CallIds : RetrieveReturns(k)
    \/ \E k \in CallIds : GenerateReturns(k)
    \/ \E k \in CallIds : SynthesizeReturns(k)

SpecPipeline == Init /\ [][PipelineNext]_vars

----------------------------------------------------------------------------
(* Stream runs: one process_streaming_audio generator for session 1 *)

StreamNext ==
    \/ StreamStart(1)
    \/ \E k \in CallIds : StreamReceives(k)
    \/ \E k \in CallIds : TranscribeReturns(k)
    \/ \E k \in CallIds : RetrieveReturns(k)
    \/ \E k \in CallIds : GenerateReturns(k)
    \/ \E k \in CallIds : SynthesizeReturns(k)
    \/ StreamYields
    \/ StreamEnds

SpecStream == Init /\ [][StreamNext]_vars

\* What the event loop guarantees to a call: the coroutine is resumed when the
\* asyncio.sleep of transcribe_audio_chunk is over.  The return of the
\* vector-store query, of the Groq request and of the ElevenLabs request is
\* the provider's doing: no call of process_audio_chunk is wrapped in a
\* timeout (max_processing_time is set and never read), so nothing makes
\* these steps happen.
PipelineFairness == \A k \in CallIds : WF_vars(TranscribeReturns(k))

SpecPipelineLive == Init /\ [][PipelineNext]_vars /\ PipelineFairness

----------------------------------------------------------------------------
(* Concurrent runs: several process_audio_chunk calls for one session, each  *)
(* await of the coroutine taken as a point where another call may run.  The  *)
(* session has had no exchange yet, or enough of them for the next two to    *)
(* pass the cap of the context history.                                      *)

ConcurrentCallIds == 1..MaxConcurrentCalls

PriorExchanges == CONTEXT_HISTORY_CAP \div 2 - 1

RECURSIVE PriorTurns(_)
\* the turns of n earlier exchanges of the session
PriorTurns(n) ==
    IF n = 0 THEN <<>> ELSE PriorTurns(n - 1) \o ContextTurns("help me", "reply")

\* the context of a session after n exchanges (n at most half the cap)
PriorContext(n) ==
    [SessionContext EXCEPT !.history = PriorTurns(n), !.total_interactions = n]

ConcurrentInit ==
    /\ sessions = <<>>
    /\ active_sessions = <<>>
    /\ session_history = <<>>
    /\ now = 0
    /\ last_call = NoCall
    /\ \E n \in {0, PriorExchanges} :
          /\ pipe_sessions = IF n = 0 THEN <<>> ELSE <<PriorContext(n)>>
          /\ pipeLog = IF n = 0 THEN <<>> ELSE <<PriorTurns(n)>>
    /\ calls = [k \in ConcurrentCallIds |-> IdleFrame]
    /\ stream = IdleStream
    /\ conns = [j \in ConnIds |-> Connection("closed", None, 0, 0)]
    /\ active_connections = <<>>
    /\ call_logs = <<>>
    /\ interaction_logs = <<>>
    /\ question_patterns = <<>>
    /\ fullLog = <<>>

\* the calls are started in the order of their ids
ConcurrentStart(k) ==
    /\ \A j \in 1..(k - 1) : calls[j].pc # "idle"
    /\ StartCall(k, 1)

\* the transcriptions of these runs are clearly below or clearly above the
\* confidence threshold
ConcurrentTranscribeReturns(k) ==
    /\ TranscribeReturns(k)
    /\ calls'[k].heard.confidence # min_confidence_threshold

ConcurrentNext ==
    \/ \E k \in ConcurrentCallIds : ConcurrentStart(k)
    \/ \E k \in ConcurrentCallIds : ConcurrentTranscribeReturns(k)
    \/ \E k \in ConcurrentCallIds : RetrieveReturns(k)
    \/ \E k \in ConcurrentCallIds : GenerateReturns(k)
    \/ \E k \in ConcurrentCallIds : SynthesizeReturns(k)

SpecConcurrent == ConcurrentInit /\ [][ConcurrentNext]_vars

----------------------------------------------------------------------------
(* Isolation runs: concurrent process_audio_chunk calls for different        *)
(* sessions, one of which may have had exchanges before.                     *)

\* call k is for session k
IsolationStart(k) ==
    /\ k \in PipelineSessionIds
    /\ StartCall(k, k)

IsolationNext ==
    \/ \E k \in ConcurrentCallIds : IsolationStart(k)
    \/ \E k \in ConcurrentCallIds : ConcurrentTranscribeReturns(k)
    \/ \E k \in ConcurrentCallIds : RetrieveReturns(k)
    \/ \E k \in ConcurrentCallIds : GenerateReturns(k)
    \/ \E k \in ConcurrentCallIds : SynthesizeReturns(k)

SpecIsolation == ConcurrentInit /\ [][IsolationNext]_vars

----------------------------------------------------------------------------
(* Event-loop runs: the calls are coroutines of one asyncio event loop.  A   *)
(* call gives the loop up only where it awaits something that suspends:      *)
(* asyncio.sleep in transcribe_audio_chunk.  retrieve_context,               *)
(* generate_response and text_to_speech contain no await: the vector-store   *)
(* query, the Groq request and the ElevenLabs request are plain blocking     *)
(* calls, and the call that is inside one of them occupies the loop's thread *)
(* until it reaches its return.                                              *)

\* the call is inside a blocking provider call
HoldsLoop(k) == calls[k].pc \in {"retrieve", "generate", "synthesize", "clarify", "error"}

\* the loop can run call k
LoopRuns(k) == \A j \in DOMAIN calls : j # k => ~HoldsLoop(j)

\* one step of call k in the event loop
LoopStep(k) ==
    /\ LoopRuns(k)
    /\ \/ \E sid \in PipelineSessionIds : StartCall(k, sid)
       \/ TranscribeReturns(k)
       \/ RetrieveReturns(k)
       \/ GenerateReturns(k)
       \/ SynthesizeReturns(k)

LoopNext == \E k \in ConcurrentCallIds : LoopStep(k)

SpecLoop == ConcurrentInit /\ [][LoopNext]_vars

----------------------------------------------------------------------------
(* Manager runs: the methods of ConversationManager called in any order *)

ManagerNext ==
    \/ \E c \in Clients : create_session(c)
    \/ \E c \in Clients : get_session(c)
    \/ \E c \in Clients : end_session(c)
    \/ \E c \in Clients : manager_add_interaction(c)
    \/ Tick

SpecManager == Init /\ [][ManagerNext]_vars

----------------------------------------------------------------------------
(* Ceiling runs: a ConversationManager whose max_active_sessions is set to   *)
(* SmallCeiling, so that create_session reaches _cleanup_old_sessions, and a *)
(* clock that stands at the instants around the one-hour age limit.          *)

CeilingClients == {"c1", "c2", "c3"}
CeilingTimes == {0, SESSION_MAX_AGE, SESSION_MAX_AGE + 1}

CeilingCreate(client_id) ==
    /\ Len(sessions) < MaxCeilingSessions
    /\ DoCreateSessionAt(client_id, SmallCeiling)
    /\ UNCHANGED <<now, pipelineVars, appVars>>

\* time passes between two calls
CeilingAdvance ==
    /\ \E t \in CeilingTimes : t > now /\ now' = t
    /\ UNCHANGED <<managerVars, pipelineVars, appVars>>

CeilingNext ==
    \/ \E c \in CeilingClients : CeilingCreate(c)
    \/ \E c \in CeilingClients : end_session(c)
    \/ CeilingAdvance

SpecCeiling == Init /\ [][CeilingNext]_vars

----------------------------------------------------------------------------
(* Call-log runs: save_call_data on sessions of every status and of several  *)
(* durations, get_call_analytics on the log.                                 *)

CallEndTimes == {1, 2, 42}

\* the session objects handed to save_call_data: sessions started at 0, still
\* active or ended (normally or with an error) at one of CallEndTimes, with or
\* without an exchange counted
ExportedSessions(id) ==
    {[ConversationSession(id, "c1", 0) EXCEPT !.total_interactions = n] : n \in {0, 1}}
    \cup {[ConversationSession(id, "c1", 0) EXCEPT
               !.end_time = t, !.status = st, !.total_interactions = n] :
             t \in CallEndTimes, st \in {"ended", "error"}, n \in {0, 1}}

RecordCall ==
    /\ Len(call_logs) < MaxRecordedCalls
    /\ \E session \in ExportedSessions(Len(call_logs) + 1) : save_call_data(session)
    /\ UNCHANGED <<managerVars, now, pipelineVars, conns, active_connections>>

CallLogNext == RecordCall

SpecCallLog == Init /\ [][CallLogNext]_vars

----------------------------------------------------------------------------
(* Hour runs: save_call_data on sessions that started in several hours of    *)
(* the day, get_call_analytics on the log.                                   *)

\* start times: two in the hour 0, one in each of the hours 1, 2 and 23
HourStarts == {0, 1800, 3600, 7200, 82800}

RecordCallAt(t) ==
    /\ Len(call_logs) < MaxRecordedCalls
    /\ save_call_data([ConversationSession(Len(call_logs) + 1, "c1", t) EXCEPT
                          !.end_time = t + 60, !.status = "ended"])
    /\ UNCHANGED <<managerVars, now, pipelineVars, conns, active_connections>>

HoursNext == \E t \in HourStarts : RecordCallAt(t)

SpecHours == Init /\ [][HoursNext]_vars

----------------------------------------------------------------------------
(* Export runs: save_call_data on ended sessions whose window the session    *)
(* built from none, one or several exchanges; get_call_analytics and         *)
(* get_common_questions read between the calls.                              *)

ExportTexts ==
    {"thank you", "this is bad", "charge my account for the bill", "good but awful"}

RECURSIVE SessionAfter(_, _)
\* the session after one add_interaction per user message
SessionAfter(session, user_messages) ==
    IF user_messages = <<>> THEN session
    ELSE SessionAfter(add_interaction(session, Head(user_messages), "reply",
                                      DEFAULT_CONFIDENCE, session.start_time),
                      Tail(user_messages))

ExportCall ==
    /\ Len(call_logs) < MaxExportCalls
    /\ \E n \in 0..(MaxExportTurns - Len(interaction_logs)) :
          \E user_messages \in [1..n -> ExportTexts] :
             save_call_data([SessionAfter(ConversationSession(Len(call_logs) + 1, "c1", 0),
                                          user_messages)
                                EXCEPT !.end_time = 1, !.status = "ended"])
    /\ last_call' = Call("save_call_data", None, 0)
    /\ UNCHANGED <<sessions, active_sessions, session_history, fullLog, now,
                   pipelineVars, conns, active_connections>>

\* GET /api/analytics/calls
ReadCallAnalytics ==
    /\ last_call' = Call("get_call_analytics", None, get_call_analytics(call_logs))
    /\ UNCHANGED <<sessions, active_sessions, session_history, fullLog, now,
                   pipelineVars, appVars>>

\* get_common_questions(limit)
ReadCommonQuestions ==
    /\ \E limit \in 1..MaxLimit :
          last_call' = Call("get_common_questions", None,
                            common_patterns(interaction_logs, question_patterns, limit))
    /\ UNCHANGED <<sessions, active_sessions, session_history, fullLog, now,
                   pipelineVars, appVars>>

ExportNext ==
    \/ ExportCall
    \/ ReadCallAnalytics
    \/ ReadCommonQuestions

SpecExport == Init /\ [][ExportNext]_vars

----------------------------------------------------------------------------
(* Questions runs: save_call_data on ended sessions of one exchange, one per *)
(* user message; get_common_questions on the logs.                           *)

QuestionTexts ==
    {"what is my bill", "what is my bill amount", "what is my billing date",
     "so what is my bill", "What's my bill?", "help me", "reset my password",
     "hello there", "cancel my account, stop it", "my friend is pending"}

RecordQuestion ==
    /\ Len(interaction_logs) < MaxLoggedQuestions
    /\ \E text \in QuestionTexts :
          save_call_data([ConversationSession(Len(call_logs) + 1, "c1", 0) EXCEPT
                             !.end_time = 1, !.status = "ended", !.total_interactions = 1,
                             !.conversation_history =
                                 <<UserTurn(text, DEFAULT_CONFIDENCE, 0),
                                   AssistantTurn("reply", 0)>>])
    /\ UNCHANGED <<managerVars, now, pipelineVars, conns, active_connections>>

QuestionsNext == RecordQuestion

SpecQuestions == Init /\ [][QuestionsNext]_vars

----------------------------------------------------------------------------
(* Application runs: websocket connections driving the manager and the pipeline *)

AppNext ==
    \/ \E j \in ConnIds, c \in Clients : WsConnect(j, c)
    \/ \E j \in ConnIds, k \in CallIds : WsAudioChunk(j, k)
    \/ \E k \in CallIds : TranscribeReturns(k)
    \/ \E k \in CallIds : RetrieveReturns(k)
    \/ \E k \in CallIds : GenerateReturns(k)
    \/ \E k \in CallIds : SynthesizeReturns(k)
    \/ \E j \in ConnIds : WsSendResponse(j)
    \/ \E j \in ConnIds : WsEndCall(j)
    \/ \E j \in ConnIds : WsCallEnded(j)
    \/ \E j \in ConnIds : WsDisconnect(j)

SpecApp == Init /\ [][AppNext]_vars

----------------------------------------------------------------------------
(* Context window and interaction counter *)

Min(a, b) == IF a <= b THEN a ELSE b

\* window is the last Min(Len(log), cap) turns of log, in the order of log
IsMostRecent(window, log, cap) ==
    /\ Len(window) = Min(Len(log), cap)
    /\ \A i \in 1..Len(window) : window[i] = log[Len(log) - Len(window) + i]

\* C1: after any sequence of add_interaction / _update_session_context calls the
\* stored window holds at most the cap of turns (50 in a ConversationSession, 20
\* in a pipeline context) and is exactly the most recent turns of everything
\* that was added, oldest first.
C1_WindowIsMostRecentTurns ==
    /\ \A sid \in 1..Len(sessions) :
          /\ Len(sessions[sid].conversation_history) <= 50
          /\ IsMostRecent(sessions[sid].conversation_history, fullLog[sid], 50)
    /\ \A sid \in DOMAIN pipe_sessions :
          /\ Len(pipe_sessions[sid].history) <= 20
          /\ IsMostRecent(pipe_sessions[sid].history, LogOf(pipeLog, sid), 20)

\* both windows have dropped turns
C1_Witness ==
    /\ Len(sessions) >= 1
    /\ Len(fullLog[1]) > 50
    /\ 1 \in DOMAIN pipe_sessions
    /\ Len(LogOf(pipeLog, 1)) > 20

\* C2: the interaction counter of a session (and of a pipeline context) equals
\* the number of exchanges added to it, whether or not the window was truncated.
C2_CounterCountsExchanges ==
    /\ \A sid \in 1..Len(sessions) :
          2 * sessions[sid].total_interactions = Len(fullLog[sid])
    /\ \A sid \in DOMAIN pipe_sessions :
          2 * pipe_sessions[sid].total_interactions = Len(LogOf(pipeLog, sid))

\* C2: each step that adds an exchange raises the counter by exactly one and no
\* step lowers it.
C2_CounterStep ==
    /\ \A sid \in 1..Len(sessions) :
          /\ sessions'[sid].total_interactions >= sessions[sid].total_interactions
          /\ Len(fullLog'[sid]) > Len(fullLog[sid]) =>
                sessions'[sid].total_interactions = sessions[sid].total_interactions + 1
    /\ \A sid \in DOMAIN pipe_sessions :
          /\ sid \in DOMAIN pipe_sessions'
          /\ pipe_sessions'[sid].total_interactions >= pipe_sessions[sid].total_interactions
          /\ Len(LogOf(pipeLog', sid)) > Len(LogOf(pipeLog, sid)) =>
                pipe_sessions'[sid].total_interactions =
                    pipe_sessions[sid].total_interactions + 1

C2_CounterLaw == [](C2_CounterCountsExchanges) /\ [][C2_CounterStep]_vars

\* the counter of each window is ahead of the number of exchanges it still holds
C2_Witness ==
    /\ Len(sessions) >= 1
    /\ 2 * sessions[1].total_interactions > Len(sessions[1].conversation_history)
    /\ 1 \in DOMAIN pipe_sessions
    /\ 2 * pipe_sessions[1].total_interactions > Len(pipe_sessions[1].history)

----------------------------------------------------------------------------
(* process_audio_chunk: the outcomes *)

Done(k) == calls[k].pc = "done"

\* the two turns of an exchange are stored next to each other in a history
HasExchange(history, user_message, ai_response) ==
    \E i \in 1..(Len(history) - 1) :
        /\ history[i].role = "user" /\ history[i].content = user_message
        /\ history[i + 1].role = "assistant" /\ history[i + 1].content = ai_response

HeardSpeech(k) == ~calls[k].heard.is_none /\ calls[k].heard.transcript # ""

\* C3: a call whose transcription returned a non-empty transcript with a
\* confidence below 0.7 invokes neither retrieval nor generation and returns the
\* clarification text with confidence 0; a confidence of exactly 0.7 is not
\* gated.
C3_LowConfidenceIsClarified ==
    \A k \in CallIds :
        /\ (HeardSpeech(k) /\ calls[k].heard.confidence < 70) =>
              /\ calls[k].invoked \cap {"retrieval", "generation"} = {}
              /\ calls[k].pc \in {"clarify", "done"}
              /\ Done(k) =>
                    /\ calls[k].response.ai_response =
                         "I'm sorry, I didn't catch that clearly. Could you please repeat your question?"
                    /\ calls[k].response.confidence = 0
        /\ (HeardSpeech(k) /\ calls[k].heard.confidence = 70) =>
              /\ calls[k].pc # "clarify"
              /\ "retrieval" \in calls[k].invoked
              /\ Done(k) => calls[k].response.ai_response # CLARIFICATION_TEXT

\* a call was gated at 0.69 and has returned
C3_Witness ==
    \E k \in CallIds :
        /\ Done(k) /\ HeardSpeech(k) /\ calls[k].heard.confidence = 69
        /\ calls[k].response.ai_response = CLARIFICATION_TEXT
        /\ calls[k].invoked = {"transcription", "synthesis"}

GenerationFailed(k) == calls[k].generation \in {"raise", "none"}

\* C4: a call whose generation raised or returned none returns the fallback
\* apology in the normal outcome: the transcript and its confidence are in the
\* response and the exchange is in the session context.
C4_GenerationFailureFallsBack ==
    \A k \in CallIds :
        GenerationFailed(k) =>
            /\ calls[k].pc \in {"synthesize", "done"}
            /\ Done(k) =>
                  /\ calls[k].response.ai_response =
                       "I apologize, but I'm having trouble processing your request right now. Could you please try again?"
                  /\ calls[k].response.transcript = calls[k].heard.transcript
                  /\ calls[k].response.transcript # ""
                  /\ calls[k].response.confidence = calls[k].heard.confidence
                  /\ calls[k].response.confidence >= 70
                  /\ calls[k].session_id \in DOMAIN pipe_sessions
                  /\ HasExchange(pipe_sessions[calls[k].session_id].history,
                                 calls[k].heard.transcript, FALLBACK_TEXT)

\* a call has returned after the Groq client raised
C4_Witness ==
    \E k \in CallIds :
        /\ Done(k) /\ calls[k].generation = "raise"
        /\ calls[k].response.ai_response = FALLBACK_TEXT

WellFormed(response, k) ==
    /\ response.audio_data \in {NoAudio} \cup
          {Audio(t) : t \in {CLARIFICATION_TEXT, ERROR_TEXT}
                            \cup {optimize_for_voice(r) : r \in Replies \cup {FALLBACK_TEXT}}}
    /\ response.transcript \in Messages \cup {""}
    /\ response.ai_response \in Replies \cup {"", CLARIFICATION_TEXT, FALLBACK_TEXT, ERROR_TEXT}
    /\ response.confidence \in 0..100
    /\ response.processing_time >= 0
    /\ response.session_id = calls[k].session_id

\* C5: whatever the providers do, no exception leaves process_audio_chunk, a
\* call that is not finished can always take its next step, and a finished call
\* has returned a response with every field set.
C5_ProcessIsTotal ==
    \A k \in CallIds :
        /\ calls[k].pc # "raised"
        /\ calls[k].pc \in {"idle", "transcribe", "clarify", "retrieve", "generate",
                            "synthesize", "error", "done"}
        /\ Done(k) => WellFormed(calls[k].response, k)
        /\ ~Done(k) => calls[k].response = NoResponse

\* a call has returned the clarification although its synthesis failed
C5_Witness ==
    \E k \in CallIds :
        /\ Done(k)
        /\ calls[k].response.ai_response = CLARIFICATION_TEXT
        /\ calls[k].response.audio_data = NoAudio

\* C6 as stated: every returned response carries a non-empty reply text.
C6_EveryResponseHasReply ==
    \A k \in CallIds : Done(k) => calls[k].response.ai_response \notin {"", None}

\* C6 as the code has it: the reply text is empty exactly when the transcription
\* returned none or an empty transcript (and then there is no audio either); in
\* every other outcome it is the clarification, an apology or the generated reply.
C6_ReplyUnlessNothingHeard ==
    \A k \in CallIds : Done(k) =>
        /\ HeardSpeech(k) => calls[k].response.ai_response \in
              Replies \cup {CLARIFICATION_TEXT, FALLBACK_TEXT, ERROR_TEXT}
        /\ HeardSpeech(k) => calls[k].response.ai_response \notin {"", None}
        /\ ~HeardSpeech(k) =>
              /\ calls[k].response.ai_response = ""
              /\ calls[k].response.audio_data = NoAudio

\* a call has returned the fallback after the generated content was empty
C6_Witness ==
    \E k \in CallIds :
        /\ Done(k) /\ calls[k].generation = "empty"
        /\ calls[k].response.ai_response = FALLBACK_TEXT

----------------------------------------------------------------------------
(* The pipeline and the Session Manager *)

\* C7: after a call that returned the success outcome for a session of the
\* Session Manager, that session holds the (user text, reply text) exchange and
\* has counted it.
C7_ManagerSessionHasExchange ==
    \A k \in CallIds :
        (Done(k) /\ calls[k].response.transcript # ""
                 /\ calls[k].session_id \in 1..Len(sessions)) =>
            /\ HasExchange(sessions[calls[k].session_id].conversation_history,
                           calls[k].response.transcript, calls[k].response.ai_response)
            /\ sessions[calls[k].session_id].total_interactions >= 1

----------------------------------------------------------------------------
(* ConversationManager: create, get, end *)

ActiveIds == {active_sessions[i].value : i \in 1..Len(active_sessions)}
HistoryIds == {session_history[i] : i \in 1..Len(session_history)}

\* the step is a call of the manager method op for client c
IsCall(op, c) == last_call' # last_call /\ last_call'.op = op /\ last_call'.client = c

\* C8 (state): no client id has two entries in the active set, and the session
\* under a client id is a session of that client.
C8_OneActiveSessionPerClient ==
    /\ \A c \in Clients :
          Cardinality({i \in 1..Len(active_sessions) : active_sessions[i].key = c}) <= 1
    /\ \A i \in 1..Len(active_sessions) :
          sessions[active_sessions[i].value].client_id = active_sessions[i].key

\* C8 (step): create returns a session whose id no earlier session has, that is
\* active with an empty window and a zero counter, and that is the active
\* session of its client.
C8_CreateIsFresh ==
    \A c \in Clients : IsCall("create", c) =>
        LET new == last_call'.value
        IN  /\ new \in 1..Len(sessions')
            /\ \A old \in 1..Len(sessions) : sessions'[new].id # sessions[old].id
            /\ \A other \in 1..Len(sessions') :
                  other # new => sessions'[other].id # sessions'[new].id
            /\ sessions'[new].status = "active"
            /\ sessions'[new].conversation_history = <<>>
            /\ sessions'[new].total_interactions = 0
            /\ sessions'[new].client_id = c
            /\ DictGet(active_sessions', c) = new

C8_SessionPerClient == [](C8_OneActiveSessionPerClient) /\ [][C8_CreateIsFresh]_vars

\* create has just returned a session to a client whose earlier session is in
\* the history
C8_Witness ==
    /\ last_call.op = "create"
    /\ \E sid \in HistoryIds :
          /\ sessions[sid].client_id = last_call.client
          /\ sid # last_call.value
    /\ DictGet(active_sessions, last_call.client) = last_call.value

\* C9 (step): end returns the active session of the client if there is one; an
\* end that directly follows an end of the same client which returned a session
\* returns none and leaves the history as it is.
C9_SecondEndIsNoOp ==
    \A c \in Clients : IsCall("end", c) =>
        /\ last_call'.value = DictGet(active_sessions, c)
        /\ (last_call.op = "end" /\ last_call.client = c /\ last_call.value # 0) =>
              /\ last_call'.value = 0
              /\ session_history' = session_history

\* C9 (state): no session is in the history twice.
C9_HistoryHasNoDuplicates ==
    \A i, j \in 1..Len(session_history) :
        session_history[i] = session_history[j] => i = j

C9_EndTwice == [](C9_HistoryHasNoDuplicates) /\ [][C9_SecondEndIsNoOp]_vars

\* end has just returned none to a client whose session is in the history
C9_Witness ==
    /\ last_call = Call("end", last_call.client, 0)
    /\ \E sid \in HistoryIds : sessions[sid].client_id = last_call.client
    /\ DictGet(active_sessions, last_call.client) = 0

\* C10 (step): end on a client with an active session marks it ended at the
\* current time, removes it from the active set and appends it to the history;
\* a get that follows an end of the same client returns none.
C10_EndMovesSession ==
    \A c \in Clients :
        /\ (IsCall("end", c) /\ DictGet(active_sessions, c) # 0) =>
              LET sid == DictGet(active_sessions, c)
              IN  /\ sessions'[sid].status = "ended"
                  /\ sessions'[sid].end_time = now
                  /\ sessions'[sid].end_time # NoTime
                  /\ DictGet(active_sessions', c) = 0
                  /\ sid \notin ActiveIds'
                  /\ session_history' = Append(session_history, sid)
        /\ (IsCall("get", c) /\ last_call.op = "end" /\ last_call.client = c) =>
              last_call'.value = 0

\* C10 (state): the active set and the history are disjoint, the sessions of
\* the active set are active, the sessions of the history are ended and have
\* an end timestamp.
C10_ActiveAndHistory ==
    /\ ActiveIds \cap HistoryIds = {}
    /\ \A sid \in ActiveIds :
          sessions[sid].status = "active" /\ sessions[sid].end_time = NoTime
    /\ \A sid \in HistoryIds :
          sessions[sid].status = "ended" /\ sessions[sid].end_time # NoTime

C10_EndSession == [](C10_ActiveAndHistory) /\ [][C10_EndMovesSession]_vars

\* get has just returned none to a client whose session was ended after the
\* clock had moved
C10_Witness ==
    /\ last_call = Call("get", last_call.client, 0)
    /\ \E sid \in HistoryIds :
          /\ sessions[sid].client_id = last_call.client
          /\ sessions[sid].status = "ended"
          /\ sessions[sid].end_time > sessions[sid].start_time

----------------------------------------------------------------------------
(* ConversationManager: the ceiling on active sessions *)

\* the active sessions that _cleanup_old_sessions would end now
Evictable == SessionsToRemove(sessions, active_sessions, now)

\* C11: after any create the number of active sessions is at most the ceiling:
\* a create at the ceiling first ends active sessions, oldest first, until
\* there is room.
C11_ActiveWithinCeiling ==
    Len(active_sessions) <= SmallCeiling

\* C12: a create called at the ceiling for a new client when no active session
\* can be evicted does not return a session and admits nothing.
C12_CreateFailsWhenFull ==
    [][\A c \in CeilingClients :
          (/\ IsCall("create", c)
           /\ DictGet(active_sessions, c) = 0
           /\ Len(active_sessions) >= SmallCeiling
           /\ Evictable = <<>>) =>
              /\ last_call'.value = 0
              /\ active_sessions' = active_sessions]_vars

----------------------------------------------------------------------------
(* ConversationManager.add_interaction *)

\* the step is an add_interaction call for client c
IsAdd(c) ==
    /\ last_call'.op = "add" /\ last_call'.client = c
    /\ last_call' # last_call \/ sessions' # sessions

\* C13: add_interaction for a client without an active session returns false
\* and changes no session, no window, no counter, neither the active set nor
\* the history; for a client with an active session it returns true.
C13_AddWithoutSessionStep ==
    \A c \in Clients : IsAdd(c) =>
        IF DictGet(active_sessions, c) = 0
        THEN /\ last_call'.value = 0
             /\ sessions' = sessions
             /\ active_sessions' = active_sessions
             /\ session_history' = session_history
        ELSE /\ last_call'.value = 1
             /\ Len(sessions') = Len(sessions)

C13_AddWithoutSession == [][C13_AddWithoutSessionStep]_vars

\* add_interaction has just returned false to a client whose ended session
\* holds an exchange
C13_Witness ==
    /\ last_call.op = "add" /\ last_call.value = 0
    /\ DictGet(active_sessions, last_call.client) = 0
    /\ \E sid \in HistoryIds :
          /\ sessions[sid].client_id = last_call.client
          /\ sessions[sid].total_interactions = 1

----------------------------------------------------------------------------
(* ConversationSession.status *)

\* C14: a session that is no longer active never becomes active again.
C14_StatusNeverReverts ==
    [][\A sid \in 1..Len(sessions) :
          sessions[sid].status # "active" =>
              /\ sid <= Len(sessions')
              /\ sessions'[sid].status # "active"]_vars

\* a client has a new active session while two earlier sessions, one of them
\* swept at the ceiling, are ended
C14_Witness ==
    /\ last_call.op = "create"
    /\ Len(session_history) >= 2
    /\ \E sid \in HistoryIds :
          /\ sessions[sid].client_id = last_call.client
          /\ sessions[sid].status = "ended"
    /\ \E sid \in HistoryIds :
          /\ sessions[sid].client_id # last_call.client
          /\ sessions[sid].end_time = now
          /\ now - sessions[sid].start_time > 3600

----------------------------------------------------------------------------
(* The websocket endpoint and the analytics call log *)

\* the call records of a session
RecordsOf(sid) == {i \in 1..Len(call_logs) : call_logs[i].session_id = sid}

\* C15: every session that the endpoint has ended (after an end_call message, a
\* disconnect or an error) has exactly one record in the call log.
C15_EndedSessionsAreRecorded ==
    \A sid \in HistoryIds : Cardinality(RecordsOf(sid)) = 1

\* C16: every record of the call log was taken from an ended session: its
\* status is ended or error and its end time is the end time of the session.
C16_RecordsAreOfEndedSessions ==
    \A i \in 1..Len(call_logs) :
        /\ call_logs[i].status \in {"ended", "error"}
        /\ call_logs[i].end_time = sessions[call_logs[i].session_id].end_time

----------------------------------------------------------------------------
(* AnalyticsService.get_call_analytics *)

Abs(x) == IF x < 0 THEN -x ELSE x

\* h hundredths is num / den rounded to two decimals
IsRounded(h, num, den) == 2 * Abs(h * den - 100 * num) <= den

\* a log of one call that lasted 42 and ended normally
OneCallOf42 ==
    /\ Len(call_logs) = 1
    /\ call_logs[1].duration = 42
    /\ call_logs[1].status = "ended"

\* C17 as stated: the aggregate of the empty log is all zero; otherwise
\* total_calls is the length of the log, the success rate is exactly the ended
\* calls / total * 100 and the average duration exactly the sum of durations /
\* total.
C17_ExactAggregates ==
    LET report == get_call_analytics(call_logs)
        total == Len(call_logs)
    IN  IF total = 0
        THEN \A f \in DOMAIN report : report[f] = 0
        ELSE /\ report.total_calls = total
             /\ report.success_rate * total = 10000 * SuccessfulCalls(call_logs)
             /\ report.average_duration * total = 100 * SumOf(call_logs, "duration")

\* C17 as the code has it: the success rate and the average duration are the
\* quotients rounded to two decimals; one call of 42 that ended gives 100.00
\* and 42.00.
C17_RoundedAggregates ==
    LET report == get_call_analytics(call_logs)
        total == Len(call_logs)
        ended == Cardinality({i \in 1..total : call_logs[i].status = "ended"})
    IN  IF total = 0
        THEN \A f \in DOMAIN report : report[f] = 0
        ELSE /\ report.total_calls = total
             /\ IsRounded(report.success_rate, 100 * ended, total)
             /\ IsRounded(report.average_duration, SumOf(call_logs, "duration"), total)
             /\ OneCallOf42 =>
                    report.success_rate = 10000 /\ report.average_duration = 4200

\* three calls, one of them ended normally, whose durations do not divide by 3
C17_Witness ==
    /\ Len(call_logs) = 3
    /\ SuccessfulCalls(call_logs) = 1
    /\ SumOf(call_logs, "duration") % 3 # 0
    /\ get_call_analytics(call_logs).success_rate = 3333

----------------------------------------------------------------------------
(* AnalyticsService.get_common_questions *)

\* the recorded user messages that reduce to a pattern, by position in the log
ReducingTo(pattern) ==
    {i \in 1..Len(interaction_logs) : PatternOf(interaction_logs[i].user_message) = pattern}

FirstReducingTo(pattern) ==
    CHOOSE i \in ReducingTo(pattern) : \A j \in ReducingTo(pattern) : i <= j

\* at most limit patterns, by count descending, ties in first-insertion order
C18_Ranked(report, limit) ==
    /\ Len(report) <= limit
    /\ \A i, j \in 1..Len(report) :
          i < j =>
            /\ report[i].pattern # report[j].pattern
            /\ report[i].count >= report[j].count
            /\ report[i].count = report[j].count =>
                  /\ ReducingTo(report[i].pattern) # {}
                  /\ ReducingTo(report[j].pattern) # {}
                  /\ FirstReducingTo(report[i].pattern) < FirstReducingTo(report[j].pattern)

\* the count of a pattern is the number of recorded messages reducing to it
C18_Counted(report) ==
    \A i \in 1..Len(report) :
        /\ report[i].pattern # <<>>
        /\ report[i].count = Cardinality(ReducingTo(report[i].pattern))

\* at most 3 examples, each a recorded message reducing to the pattern
C18_Exemplified(report) ==
    \A i \in 1..Len(report) :
        /\ Len(report[i].examples) <= 3
        /\ \A e \in 1..Len(report[i].examples) :
              \E m \in ReducingTo(report[i].pattern) :
                  interaction_logs[m].user_message = report[i].examples[e]

\* C18: get_common_questions(limit) returns at most limit patterns by count
\* descending, ties in first-insertion order; a count is the number of recorded
\* messages of at least 3 normalized tokens whose first 3 form the pattern;
\* a pattern has at most 3 examples, all recorded messages reducing to it (two
\* messages reducing to "what is my" give count 2 and those 2 examples).
C18_CommonQuestions ==
    \A limit \in 0..MaxLimit :
        LET report == common_patterns(interaction_logs, question_patterns, limit)
        IN  /\ C18_Ranked(report, limit)
            /\ C18_Counted(report)
            /\ C18_Exemplified(report)
            /\ (/\ Len(interaction_logs) = 2
                /\ \A i \in 1..2 :
                      PatternOf(interaction_logs[i].user_message) = Chars("what is my")
                /\ limit >= 1)
               => /\ Len(report) = 1
                  /\ report[1].pattern = Chars("what is my")
                  /\ report[1].count = 2
                  /\ report[1].examples =
                        <<interaction_logs[1].user_message, interaction_logs[2].user_message>>

----------------------------------------------------------------------------
(* Concurrent process_audio_chunk calls for one session *)

\* the call returned the response of the main path: its exchange is complete
Completed(k) == calls[k].pc = "done" /\ calls[k].response.transcript \in Messages

\* the positions of the log of session 1 where an exchange begins whose turns
\* are a user turn u and an assistant turn a
ExchangesOf(u, a) ==
    LET log == LogOf(pipeLog, 1)
    IN  {i \in 1..(Len(log) - 1) :
            /\ i % 2 = 1
            /\ log[i] = [role |-> "user", content |-> u]
            /\ log[i + 1] = [role |-> "assistant", content |-> a]}

\* C19: with several calls for one session in flight, the turns ever added to
\* its context are whole exchanges, a user turn followed by the assistant turn
\* of the same call, one per completed call (none lost, none twice), beside
\* the exchanges the session had before; the counter is the number of
\* exchanges and the window is the last turns of them, within the cap.
C19_ExchangesSerialize ==
    LET log == LogOf(pipeLog, 1)
        prior == Cardinality(ExchangesOf("help me", "reply"))
        completed == {k \in ConcurrentCallIds : Completed(k)}
    IN  /\ Len(log) % 2 = 0
        /\ \A i \in 1..Len(log) :
              log[i].role = IF i % 2 = 1 THEN "user" ELSE "assistant"
        /\ \A u \in Messages, a \in Replies \cup {FALLBACK_TEXT} :
              Cardinality(ExchangesOf(u, a)) =
                  Cardinality({k \in completed :
                                  /\ calls[k].response.transcript = u
                                  /\ calls[k].response.ai_response = a})
        /\ Len(log) = 2 * (prior + Cardinality(completed))
        /\ IF 1 \in DOMAIN pipe_sessions
           THEN /\ pipe_sessions[1].total_interactions = prior + Cardinality(completed)
                /\ Len(pipe_sessions[1].history) <= CONTEXT_HISTORY_CAP
                /\ pipe_sessions[1].history = TruncateContextHistory(log)
           ELSE log = <<>>

\* a later call completed its exchange while an earlier one, that heard another
\* message, still awaits its synthesis, and the window is at its cap
C19_Witness ==
    /\ Completed(2)
    /\ calls[1].pc = "synthesize"
    /\ calls[1].transcript # calls[2].response.transcript
    /\ Len(pipe_sessions[1].history) = CONTEXT_HISTORY_CAP

----------------------------------------------------------------------------
(* Concurrent process_audio_chunk calls for different sessions *)

CapabilityStages == {"transcribe", "retrieve", "generate", "synthesize", "clarify", "error"}

\* C20: a call for one session that is in a capability stage never prevents a
\* call for another session, itself in a stage, from taking its next step.
C20_OtherSessionCanStep ==
    \A a, b \in ConcurrentCallIds :
        (/\ a # b
         /\ calls[a].session_id # calls[b].session_id
         /\ calls[a].pc \in CapabilityStages
         /\ calls[b].pc \in CapabilityStages)
        => ENABLED LoopStep(b)

----------------------------------------------------------------------------
(* Termination of process_audio_chunk *)

\* C21: every call of process_audio_chunk that has started eventually returns
\* a result, also when a provider never responds.
C21_EveryCallReturns ==
    \A k \in CallIds : (calls[k].pc # "idle") ~> (calls[k].pc = "done")

----------------------------------------------------------------------------
(* VoicePipeline.process_streaming_audio *)

\* the positions of the final transcriptions among those received
FinalEvents == {i \in 1..Len(stream.received) : stream.received[i].is_final}

\* the final transcriptions whose response is due: all of them, but the last
\* one while its process_audio_chunk call has not returned
AnsweredEvents ==
    IF stream.pc = "processing"
    THEN FinalEvents \ {Len(stream.received)}
    ELSE FinalEvents

\* C22: process_streaming_audio yields one response for each final
\* transcription, in the order of the transcriptions, and none for a
\* transcription that is not final: the responses yielded are as many as the
\* final transcriptions received.
C22_OneResultPerFinalEvent ==
    /\ Len(stream.emitted) = Cardinality(AnsweredEvents)
    /\ \A i \in 1..Len(stream.emitted) :
          /\ stream.emitted[i].transcription \in FinalEvents
          /\ stream.emitted[i].response.session_id = stream.session_id
          /\ \A j \in 1..(i - 1) :
                stream.emitted[j].transcription < stream.emitted[i].transcription
    /\ stream.pc = "processing" => stream.received[Len(stream.received)].is_final

\* the generator has ended after a final, a non-final and another final
\* transcription, with the two responses
C22_Witness ==
    /\ stream.pc = "closed"
    /\ Len(stream.received) = 3
    /\ FinalEvents = {1, 3}
    /\ Len(stream.emitted) = 2
    /\ stream.emitted[2].transcription = 3

----------------------------------------------------------------------------
(* process_audio_chunk: the empty result *)

\* the transcription of call k has returned none or an empty transcript
HeardNothing(k) == calls[k].pc \notin {"idle", "transcribe"} /\ ~HeardSpeech(k)

C23_EmptyResultReturned ==
    \A k \in DOMAIN calls :
        HeardNothing(k) =>
            /\ Done(k)
            /\ calls[k].invoked = {"transcription"}
            /\ calls[k].response.transcript = ""
            /\ calls[k].response.ai_response = ""
            /\ calls[k].response.confidence = 0
            /\ calls[k].response.audio_data = NoAudio
            /\ calls[k].response.processing_time >= 0

C23_EmptyResultStep ==
    \A k \in DOMAIN calls :
        (~HeardNothing(k) /\ HeardNothing(k)') =>
            /\ pipe_sessions' = pipe_sessions
            /\ pipeLog' = pipeLog

\* C23: when the transcription returns none or an empty transcript, the call
\* returns the empty result (empty transcript and reply, confidence 0, no audio,
\* a processing time), has invoked no retrieval, generation or synthesis, and
\* the step leaves every session context as it was.
C23_EmptyTranscription == [](C23_EmptyResultReturned) /\ [][C23_EmptyResultStep]_vars

\* a call has returned on an empty transcript for a session of nine exchanges
C23_Witness ==
    \E k \in DOMAIN calls :
        /\ Done(k)
        /\ calls[k].heard = Transcription("", 0)
        /\ calls[k].response = EmptyResponse(calls[k])
        /\ calls[k].session_id \in DOMAIN pipe_sessions
        /\ pipe_sessions[calls[k].session_id].total_interactions = PriorExchanges

----------------------------------------------------------------------------
(* process_audio_chunk: a failed synthesis *)

\* the synthesis of the reply of call k returns in this step without audio
SynthesisFails(k) ==
    /\ calls[k].pc = "synthesize"
    /\ calls'[k].pc # "synthesize"
    /\ calls'[k].response.audio_data = NoAudio

C25_SynthesisFailureStep ==
    \A k \in DOMAIN calls :
        SynthesisFails(k) =>
            LET sid == calls[k].session_id
            IN  /\ calls'[k].pc = "done"
                /\ calls'[k].response.transcript = calls[k].transcript
                /\ calls'[k].response.transcript = calls[k].heard.transcript
                /\ calls'[k].response.ai_response = calls[k].ai_response
                /\ calls'[k].response.ai_response \in Replies \cup {FALLBACK_TEXT}
                /\ calls'[k].response.confidence = calls[k].heard.confidence
                /\ LogOf(pipeLog', sid) =
                      LogOf(pipeLog, sid) \o ContextTurns(calls[k].transcript, calls[k].ai_response)
                /\ pipe_sessions'[sid].history =
                      TruncateContextHistory(
                          pipe_sessions[sid].history
                          \o ContextTurns(calls[k].transcript, calls[k].ai_response))
                /\ pipe_sessions'[sid].total_interactions =
                      pipe_sessions[sid].total_interactions + 1

\* C25: when the synthesis of the reply returns none, the call returns the
\* transcript, the reply text and the confidence of the transcription with no
\* audio, and the exchange is added to the session context once.
C25_SynthesisFailure == [][C25_SynthesisFailureStep]_vars

\* a call has returned a generated reply without audio, and the exchange is the
\* last of its session
C25_Witness ==
    \E k \in DOMAIN calls :
        /\ Done(k)
        /\ calls[k].response.audio_data = NoAudio
        /\ calls[k].response.ai_response \in Replies
        /\ calls[k].response.transcript \in Messages
        /\ LastN(pipe_sessions[calls[k].session_id].history, 2) =
              ContextTurns(calls[k].response.transcript, calls[k].response.ai_response)

----------------------------------------------------------------------------
(* process_audio_chunk: a failed or empty retrieval *)

\* the retrieval of call k returns in this step
RetrievalReturns(k) == calls[k].pc = "retrieve" /\ calls'[k].pc # "retrieve"

\* whatever the retrieval returns, the generation is invoked next, with the
\* context retrieved or with none
C26_RetrievalStep ==
    \A k \in DOMAIN calls :
        RetrievalReturns(k) =>
            /\ calls'[k].pc = "generate"
            /\ "generation" \in calls'[k].invoked
            /\ calls'[k].rag_context \in {"", retrieve_context("found").value}
            /\ calls'[k].transcript = calls[k].transcript

\* a call that went into the retrieval ends in the success outcome
C26_RetrievalNeverAborts ==
    \A k \in DOMAIN calls :
        "retrieval" \in calls[k].invoked =>
            /\ calls[k].pc \in {"retrieve", "generate", "synthesize", "done"}
            /\ Done(k) =>
                  /\ calls[k].response.transcript = calls[k].heard.transcript
                  /\ calls[k].response.transcript # ""
                  /\ calls[k].response.ai_response # ERROR_TEXT
                  /\ calls[k].invoked =
                        {"transcription", "retrieval", "generation", "synthesis"}
                  /\ calls[k].session_id \in DOMAIN pipe_sessions
                  /\ HasExchange(pipe_sessions[calls[k].session_id].history,
                                 calls[k].response.transcript,
                                 calls[k].response.ai_response)

\* C26: when the retrieval fails or finds nothing the call is not aborted: the
\* generation is invoked with no retrieved context and the call ends in the
\* success outcome, with the transcript kept and the exchange recorded.
C26_RetrievalDegrades == [](C26_RetrievalNeverAborts) /\ [][C26_RetrievalStep]_vars

\* the generation of a call has been invoked with no retrieved context
C26_Witness ==
    \E k \in DOMAIN calls :
        /\ calls[k].pc = "generate"
        /\ calls[k].rag_context = ""
        /\ calls[k].invoked = {"transcription", "retrieval", "generation"}

----------------------------------------------------------------------------
(* The session contexts of the pipeline and the sessions of the manager *)

\* a process_audio_chunk call for the session has not returned yet
InFlight(session_id) ==
    \E k \in DOMAIN calls :
        calls[k].session_id = session_id /\ calls[k].pc \notin {"idle", "done", "raised"}

\* C28: the pipeline holds no context of a session that has been ended in the
\* manager and has no call in flight, so it never holds more session contexts
\* than the manager has active sessions.
C28_NoContextOfEndedSession ==
    /\ \A session_id \in DOMAIN pipe_sessions :
          ~(/\ session_id \in DOMAIN sessions
            /\ sessions[session_id].status = "ended"
            /\ ~InFlight(session_id))
    /\ Cardinality(DOMAIN pipe_sessions) <= Len(active_sessions)

----------------------------------------------------------------------------
(* process_audio_chunk: the order of the stages *)

\* the capabilities a call has invoked when it is at a position
InvokedAt(pc) ==
    CASE pc = "idle" -> {{}}
      [] pc = "transcribe" -> {{"transcription"}}
      [] pc = "clarify" -> {{"transcription", "synthesis"}}
      [] pc = "retrieve" -> {{"transcription", "retrieval"}}
      [] pc = "generate" -> {{"transcription", "retrieval", "generation"}}
      [] pc = "synthesize" -> {{"transcription", "retrieval", "generation", "synthesis"}}
      [] pc = "done" -> {{"transcription"}, {"transcription", "synthesis"},
                         {"transcription", "retrieval", "generation", "synthesis"}}
      [] OTHER -> {}

\* the positions a call can go to from a position
StagesAfter(pc) ==
    CASE pc = "idle" -> {"transcribe"}
      [] pc = "transcribe" -> {"done", "clarify", "retrieve"}
      [] pc = "clarify" -> {"done"}
      [] pc = "retrieve" -> {"generate"}
      [] pc = "generate" -> {"synthesize"}
      [] pc = "synthesize" -> {"done"}
      [] OTHER -> {}

C27_StagesInOrder ==
    /\ \A k \in DOMAIN calls : calls[k].invoked \in InvokedAt(calls[k].pc)
    /\ \A k \in DOMAIN calls :
          calls[k].pc = "synthesize" =>
              calls[k].ai_response \in Replies \cup {FALLBACK_TEXT}

C27_StageStep ==
    \A k \in DOMAIN calls :
        calls'[k] # calls[k] => calls'[k].pc \in StagesAfter(calls[k].pc)

\* the synthesis of the reply of call k returns in this step
SessionUpdate(k) == calls[k].pc = "synthesize" /\ calls'[k].pc = "done"

\* no session context is written but in the step after the synthesis
C27_WrittenOnlyAtTheEnd ==
    (pipe_sessions' # pipe_sessions \/ pipeLog' # pipeLog) =>
        \E k \in DOMAIN calls : SessionUpdate(k)

\* the transcription of call k has passed the confidence gate and the call
\* stores an empty context for a session that has none
ContextCreated(k) ==
    /\ calls[k].pc = "transcribe" /\ calls'[k].pc = "retrieve"
    /\ calls[k].session_id \notin DOMAIN pipe_sessions
    /\ pipe_sessions' = pipe_sessions @@ (calls[k].session_id :> SessionContext)
    /\ pipeLog' = pipeLog

C27_WindowWrittenOnlyAtTheEnd ==
    (pipe_sessions' # pipe_sessions \/ pipeLog' # pipeLog) =>
        \E k \in DOMAIN calls :
            \/ ContextCreated(k)
            \/ /\ SessionUpdate(k)
               /\ \A s \in DOMAIN pipe_sessions :
                     s # calls[k].session_id => pipe_sessions'[s] = pipe_sessions[s]

\* C27 as stated: the stages of a call run in the order transcribe, confidence
\* gate, retrieve, generate, voice-format, synthesize, session update, each at
\* most once, and no session state is written before the four capabilities
\* have returned.
C27_NoWriteBeforeTheEnd ==
    /\ [](C27_StagesInOrder)
    /\ [][C27_StageStep /\ C27_WrittenOnlyAtTheEnd]_vars

\* C27 as the code has it: the stages run in that order, each at most once; the
\* turns and the counter of a session context are written only after the four
\* capabilities have returned, and the one write before that is the empty
\* context stored, after the confidence gate, for a session that has none.
C27_WindowWrittenAtTheEnd ==
    /\ [](C27_StagesInOrder)
    /\ [][C27_StageStep /\ C27_WindowWrittenOnlyAtTheEnd]_vars

\* a call has gone through the four capabilities and its exchange is the first
\* of the context that it created
C27_Witness ==
    \E k \in DOMAIN calls :
        /\ Done(k)
        /\ calls[k].invoked = {"transcription", "retrieval", "generation", "synthesis"}
        /\ pipe_sessions[calls[k].session_id].total_interactions = 1
        /\ pipe_sessions[calls[k].session_id].history =
              ContextTurns(calls[k].response.transcript, calls[k].response.ai_response)

----------------------------------------------------------------------------
(* ConversationManager._cleanup_old_sessions *)

\* the manager state that _cleanup_old_sessions leaves when it is run now
Swept ==
    CleanupOldSessions(sessions, active_sessions, session_history,
                       SessionsToRemove(sessions, active_sessions, now), now)

\* the session is older than the age limit
TooOld(session_id) == now - sessions[session_id].start_time > SESSION_MAX_AGE

\* the sweep, run in any state: afterwards no active session is too old; each
\* swept session is ended, stamped and in the history; each other session is
\* as it was, the active ones still active
C29_SweepResult ==
    /\ \A i \in 1..Len(Swept.active) :
          now - Swept.heap[Swept.active[i].value].start_time <= SESSION_MAX_AGE
    /\ \A i \in 1..Len(active_sessions) :
          LET c == active_sessions[i].key
              sid == active_sessions[i].value
          IN  IF TooOld(sid)
              THEN /\ DictGet(Swept.active, c) = 0
                   /\ Swept.heap[sid] =
                         [sessions[sid] EXCEPT !.status = "ended", !.end_time = now]
                   /\ Cardinality({j \in 1..Len(Swept.history) :
                                      Swept.history[j] = sid}) = 1
              ELSE /\ DictGet(Swept.active, c) = sid
                   /\ Swept.heap[sid] = sessions[sid]
                   /\ \A j \in 1..Len(Swept.history) : Swept.history[j] # sid
    /\ \A sid \in 1..Len(sessions) :
          sid \notin ActiveIds => Swept.heap[sid] = sessions[sid]
    /\ Len(Swept.heap) = Len(sessions)
    /\ SubSeq(Swept.history, 1, Len(session_history)) = session_history

\* the sweep as create_session runs it at the ceiling: the sessions of the
\* other clients are swept or kept as above
C29_SweepStep ==
    \A c \in CeilingClients :
        (IsCall("create", c) /\ Len(active_sessions) >= SmallCeiling) =>
            \A i \in 1..Len(active_sessions) :
                LET other == active_sessions[i].key
                    sid == active_sessions[i].value
                IN  IF TooOld(sid)
                    THEN /\ sessions'[sid].status = "ended"
                         /\ sessions'[sid].end_time = now
                         /\ sid \in {session_history'[j] : j \in 1..Len(session_history')}
                         /\ DictGet(active_sessions', other) # sid
                    ELSE /\ sessions'[sid] = sessions[sid]
                         /\ other # c => DictGet(active_sessions', other) = sid

----------------------------------------------------------------------------
(* AnalyticsService._classify_intent *)

\* the number of keywords of the p-th intent that occur in the message
Hits(p, message) ==
    Cardinality({i \in 1..Len(intent_patterns[p].keywords) :
                    IsSubstring(Chars(intent_patterns[p].keywords[i]), message)})

\* intent is what C30 asks for the message
IsIntentOf(intent, message) ==
    LET hits == [p \in 1..Len(intent_patterns) |-> Hits(p, message)]
    IN  IF \A p \in DOMAIN hits : hits[p] = 0
        THEN intent = "general_question"
        ELSE \E p \in DOMAIN hits :
                /\ intent = intent_patterns[p].intent
                /\ hits[p] > 0
                /\ \A q \in DOMAIN hits : hits[q] <= hits[p]
                /\ \A q \in 1..(p - 1) : hits[q] < hits[p]

\* C30: the intent logged for a message is the intent with the highest nonzero
\* count of keyword hits in the lower-cased message, the earliest declared of
\* those with that count, and general_question when no keyword occurs.
C30_IntentIsBestScore ==
    \A i \in 1..Len(interaction_logs) :
        IsIntentOf(interaction_logs[i].intent, Lower(interaction_logs[i].user_message))

\* logged: a message that ties two intents, one whose later intent scores
\* higher, and one without any keyword
C30_Witness ==
    /\ Len(interaction_logs) = 3
    /\ interaction_logs[1].user_message = Chars("what is my bill")
    /\ interaction_logs[1].intent = "billing_inquiry"
    /\ Hits(4, interaction_logs[1].user_message) = 1
    /\ interaction_logs[2].user_message = Chars("cancel my account, stop it")
    /\ interaction_logs[2].intent = "cancellation"
    /\ interaction_logs[3].user_message = Chars("hello there")
    /\ interaction_logs[3].intent = "general_question"

----------------------------------------------------------------------------
(* AnalyticsService.get_call_analytics: the peak hour *)

\* the calls of the log that started in the hour
StartedIn(hour) == Cardinality({i \in 1..Len(call_logs) : HourOf(call_logs[i].start_time) = hour})

\* C32: the peak hour reported for a call log that is not empty is an hour with
\* the most calls started in it, and the smallest of the hours with that many
\* calls, in whatever order the calls were recorded.
C32_PeakIsSmallestMode ==
    call_logs # <<>> =>
        LET peak == get_call_analytics(call_logs).peak_hour
        IN  \A hour \in 0..23 :
               /\ StartedIn(hour) <= StartedIn(peak)
               /\ StartedIn(hour) = StartedIn(peak) => peak <= hour

----------------------------------------------------------------------------
(* AnalyticsService._categorize_question *)

\* the number of keywords of the p-th category that occur in the message
CategoryHits(p, message) ==
    Cardinality({i \in 1..Len(categories[p].keywords) :
                    IsSubstring(Chars(categories[p].keywords[i]), message)})

\* category is what C31 asks for the message
IsCategoryOf(category, message) ==
    LET hits == [p \in 1..Len(categories) |-> CategoryHits(p, message)]
    IN  IF \A p \in DOMAIN hits : hits[p] = 0
        THEN category = "other"
        ELSE \E p \in DOMAIN hits :
                /\ category = categories[p].category
                /\ hits[p] > 0
                /\ \A q \in DOMAIN hits : hits[q] <= hits[p]
                /\ \A q \in 1..(p - 1) : hits[q] < hits[p]

\* C31: the category logged for a message is the category with the highest
\* nonzero count of keyword hits in the lower-cased message, the earliest
\* declared of those with that count, and other when no keyword occurs.
C31_CategoryIsBestScore ==
    \A i \in 1..Len(interaction_logs) :
        IsCategoryOf(interaction_logs[i].question_category,
                     Lower(interaction_logs[i].user_message))

----------------------------------------------------------------------------
(* AnalyticsService._estimate_user_satisfaction *)

\* the logged messages that have one of the words, by position in the log
WithWord(words) ==
    {i \in 1..Len(interaction_logs) :
        \E w \in 1..Len(words) :
            IsSubstring(Chars(words[w]), Lower(interaction_logs[i].user_message))}

\* C33: the user satisfaction that getCallAnalytics reports is 75 when no
\* logged message has a positive or a negative keyword, the empty interaction
\* log included, and otherwise positive / (positive + negative) * 100; it lies
\* between 0 and 100.
C33_SatisfactionEstimate ==
    last_call.op = "get_call_analytics" =>
        LET estimate == last_call.value.user_satisfaction
            positive == Cardinality(WithWord(positive_words))
            negative == Cardinality(WithWord(negative_words))
        IN  /\ 0 <= estimate /\ estimate <= 10000
            /\ IF positive + negative = 0 THEN estimate = 7500
               ELSE estimate * (positive + negative) = 10000 * positive

----------------------------------------------------------------------------
(* AnalyticsService.save_call_data *)

\* the user turns of a window, in window order, each with the id of its session
UserTurnsOf(call) ==
    LET turns == SelectSeq(call.conversation_history, LAMBDA turn : turn.role = "user")
    IN  [i \in 1..Len(turns) |-> [session_id |-> call.session_id, turn |-> turns[i]]]

RECURSIVE UserTurnsOfCalls(_)
\* the user turns of the windows of the recorded calls, call after call
UserTurnsOfCalls(logs) ==
    IF logs = <<>> THEN <<>> ELSE UserTurnsOf(Head(logs)) \o UserTurnsOfCalls(Tail(logs))

\* the interaction record is the one derived from the user turn
DerivedFrom(log, entry) ==
    /\ log.session_id = entry.session_id
    /\ log.user_message = Strip(Lower(Chars(entry.turn.content)))
    /\ log.confidence = entry.turn.confidence
    /\ log.timestamp = entry.turn.timestamp

\* the interaction log has one record per user turn of the recorded windows,
\* in the order of the calls and of the turns in each window
C34_OneRecordPerUserTurn ==
    LET user_turns == UserTurnsOfCalls(call_logs)
    IN  /\ Len(interaction_logs) = Len(user_turns)
        /\ \A i \in 1..Len(user_turns) : DerivedFrom(interaction_logs[i], user_turns[i])

\* a step that changes a log is a save_call_data: it appends one call record
\* and, after the records already there, the records of that call's user turns
C34_RecordCallStep ==
    (call_logs' # call_logs \/ interaction_logs' # interaction_logs) =>
        /\ Len(call_logs') = Len(call_logs) + 1
        /\ SubSeq(call_logs', 1, Len(call_logs)) = call_logs
        /\ LET added == UserTurnsOf(call_logs'[Len(call_logs')])
           IN  /\ Len(interaction_logs') = Len(interaction_logs) + Len(added)
               /\ SubSeq(interaction_logs', 1, Len(interaction_logs)) = interaction_logs
               /\ 2 * Len(added) = Len(call_logs'[Len(call_logs')].conversation_history)

\* C34: each recordCall appends exactly one call-level record and one
\* interaction-level record per user turn of the exported window, in window
\* order and none for an assistant turn; the interaction log always has as
\* many records as the windows of the recorded calls have user turns.
C34_RecordCall == []C34_OneRecordPerUserTurn /\ [][C34_RecordCallStep]_vars

\* recorded: a call whose window has two exchanges, then a call without any
C34_Witness ==
    /\ Len(call_logs) = 2
    /\ Len(call_logs[1].conversation_history) = 4
    /\ call_logs[1].conversation_history[1].content
           # call_logs[1].conversation_history[3].content
    /\ call_logs[2].conversation_history = <<>>
    /\ Len(interaction_logs) = 2

----------------------------------------------------------------------------
(* AnalyticsService: the aggregates and the logs *)

\* question_patterns is the table recomputed from the interaction log: one
\* entry for each pattern that a logged message of three tokens or more
\* reduces to, with the number of those messages
C35_TableIsRecount ==
    /\ \A i, j \in 1..Len(question_patterns) :
          i # j => question_patterns[i].key # question_patterns[j].key
    /\ \A i \in 1..Len(question_patterns) :
          /\ question_patterns[i].key # <<>>
          /\ question_patterns[i].value > 0
          /\ question_patterns[i].value = Cardinality(ReducingTo(question_patterns[i].key))
    /\ \A i \in 1..Len(interaction_logs) :
          LET words == Split(RemovePunctuation(Lower(interaction_logs[i].user_message)))
          IN  Len(words) >= 3 =>
                  Join(SubSeq(words, 1, 3)) \in DictKeys(question_patterns)

\* the patterns that get_common_questions has just reported carry the counts
\* recomputed from the interaction log
C35_ReportIsRecount ==
    last_call.op = "get_common_questions" =>
        \A i \in 1..Len(last_call.value) :
            last_call.value[i].count = Cardinality(ReducingTo(last_call.value[i].pattern))

\* a step after which the last call is a read of the aggregates leaves the
\* logs and the table as they are
C35_ReadStep ==
    last_call'.op \in {"get_call_analytics", "get_common_questions"} =>
        UNCHANGED <<call_logs, interaction_logs, question_patterns>>

----------------------------------------------------------------------------
(* The shape of a context window *)

\* window is a sequence of whole exchanges, user turn then assistant turn, and
\* it starts where an exchange of log starts
WholeExchanges(window, log) ==
    /\ Len(window) % 2 = 0
    /\ \A i \in 1..Len(window) :
          window[i].role = IF i % 2 = 1 THEN "user" ELSE "assistant"
    /\ (Len(log) - Len(window)) % 2 = 0
    /\ \A i \in 1..Len(window) : window[i].content = log[Len(log) - Len(window) + i].content

\* C36: in every reachable state the window of a session (in the manager and
\* in the pipeline) has even length and alternates user turn, assistant turn
\* from a user turn on: truncation drops whole exchanges, and the window begins
\* with the user half of the oldest exchange it retains.
C36_WindowIsWholeExchanges ==
    /\ \A sid \in 1..Len(sessions) :
          WholeExchanges(sessions[sid].conversation_history, fullLog[sid])
    /\ \A sid \in DOMAIN pipe_sessions :
          WholeExchanges(pipe_sessions[sid].history, LogOf(pipeLog, sid))

\* both windows are full: the session's has dropped two exchanges, the
\* pipeline's one
C36_Witness ==
    /\ Len(sessions) >= 1
    /\ Len(sessions[1].conversation_history) = SESSION_HISTORY_CAP
    /\ Len(fullLog[1]) >= SESSION_HISTORY_CAP + 4
    /\ 1 \in DOMAIN pipe_sessions
    /\ Len(pipe_sessions[1].history) = CONTEXT_HISTORY_CAP
    /\ Len(LogOf(pipeLog, 1)) >= CONTEXT_HISTORY_CAP + 2

----------------------------------------------------------------------------
(* ConversationManager: where the sessions are *)

\* C37: after any sequence of create, end, add_interaction and sweep calls,
\* every session that create_session ever returned is in the active set or in
\* the history.
C37_NoSessionIsLost ==
    \A sid \in 1..Len(sessions) : sid \in ActiveIds \cup HistoryIds

----------------------------------------------------------------------------
(* Two connections under one client id *)

\* the connections that have created a session and have not closed yet
OpenConns == {j \in ConnIds : conns[j].pc \in {"receive", "processing", "ending"}}

\* the connections that have closed
ClosedConns == {j \in ConnIds : conns[j].pc = "finished"}

\* C38: closing a connection ends the session that this connection created and
\* no other one, also when another connection uses the same client id: the
\* session of a connection that is still open has not been ended, and the
\* session of a closed connection has been ended, once.
C38_CloseEndsOwnSession ==
    /\ \A j \in OpenConns :
          /\ sessions[conns[j].session].status = "active"
          /\ conns[j].session \notin HistoryIds
    /\ \A j \in ClosedConns :
          /\ sessions[conns[j].session].status = "ended"
          /\ Cardinality({i \in 1..Len(session_history) :
                             session_history[i] = conns[j].session}) = 1

----------------------------------------------------------------------------
(* process_audio_chunk: the four results and the session *)

\* the four shapes of a response
IsSuccess(response) ==
    /\ response.transcript \in Messages
    /\ response.confidence >= min_confidence_threshold
    /\ response.ai_response \notin {"", None, CLARIFICATION_TEXT, ERROR_TEXT}

IsClarification(response) ==
    /\ response.transcript = ""
    /\ response.confidence = 0
    /\ response.ai_response = CLARIFICATION_TEXT

IsEmpty(response) ==
    /\ response.transcript = ""
    /\ response.confidence = 0
    /\ response.ai_response = ""
    /\ response.audio_data = NoAudio

IsError(response) ==
    /\ response.transcript = ""
    /\ response.confidence = 0
    /\ response.ai_response = ERROR_TEXT

\* the window and the counter that the pipeline holds for a session (a session
\* without a context has had no exchange)
WindowOf(ps, session_id) == IF session_id \in DOMAIN ps THEN ps[session_id].history ELSE <<>>
CounterOf(ps, session_id) ==
    IF session_id \in DOMAIN ps THEN ps[session_id].total_interactions ELSE 0

\* a returned response has one of the four shapes, and a transcript exactly
\* when it is the success
C39_FourShapes ==
    \A k \in DOMAIN calls :
        Done(k) =>
            LET response == calls[k].response
            IN  /\ IsSuccess(response) \/ IsClarification(response)
                       \/ IsEmpty(response) \/ IsError(response)
                /\ response.transcript # "" <=> IsSuccess(response)
                /\ IsSuccess(response) <=> "generation" \in calls[k].invoked

\* a step of a call counts one interaction for its session and appends the
\* exchange when it returns the success, and leaves window and counter of the
\* session as they are otherwise
C39_SessionStep ==
    \A k \in DOMAIN calls :
        calls'[k].pc # calls[k].pc =>
            LET session_id == calls'[k].session_id
                response == calls'[k].response
            IN  IF calls'[k].pc = "done" /\ IsSuccess(response)
                THEN /\ CounterOf(pipe_sessions', session_id)
                           = CounterOf(pipe_sessions, session_id) + 1
                     /\ WindowOf(pipe_sessions', session_id)
                           = LastN(WindowOf(pipe_sessions, session_id)
                                      \o ContextTurns(response.transcript,
                                                      response.ai_response),
                                   CONTEXT_HISTORY_CAP)
                ELSE /\ CounterOf(pipe_sessions', session_id)
                           = CounterOf(pipe_sessions, session_id)
                     /\ WindowOf(pipe_sessions', session_id)
                           = WindowOf(pipe_sessions, session_id)

\* C39: every result of process_audio_chunk has one of four shapes.  It has a
\* non-empty transcript exactly when it is the success, whose confidence is at
\* least the threshold and whose call counted one interaction for the session,
\* once; the clarification, the empty result and the error result have an
\* empty transcript and the confidence 0, and their calls leave the window and
\* the counter of the session unchanged.
C39_ResultShapes == []C39_FourShapes /\ [][C39_SessionStep]_vars

\* a call that heard a message with a confidence of exactly the threshold has
\* returned the success, and the session has its first exchange
C39_Witness ==
    \E k \in DOMAIN calls :
        /\ Done(k)
        /\ IsSuccess(calls[k].response)
        /\ calls[k].response.confidence = min_confidence_threshold
        /\ CounterOf(pipe_sessions, calls[k].session_id) = 1
        /\ Len(WindowOf(pipe_sessions, calls[k].session_id)) = 2

----------------------------------------------------------------------------
(* process_audio_chunk: the sessions of other calls *)

\* history is a window of the turns that had been added to the session at
\* some moment: the most recent turns of a prefix of the session's log
IsWindowOf(history, session_id) ==
    LET log == LogOf(pipeLog, session_id)
    IN  \E n \in 0..Len(log) : IsMostRecent(history, SubSeq(log, 1, n), CONTEXT_HISTORY_CAP)

\* a step of a call leaves the context of every other session as it is
C40_OtherSessionsStep ==
    \A k \in DOMAIN calls :
        calls'[k].pc # calls[k].pc =>
            \A other \in (DOMAIN pipe_sessions \cup DOMAIN pipe_sessions') :
                other # calls'[k].session_id =>
                    /\ other \in DOMAIN pipe_sessions
                    /\ other \in DOMAIN pipe_sessions'
                    /\ pipe_sessions'[other] = pipe_sessions[other]

\* the history that a call has handed to the retrieval or to the generation
\* is a window of its own session
C40_OwnHistoryPassed ==
    \A k \in DOMAIN calls :
        calls[k].pc \in {"retrieve", "generate"} =>
            IsWindowOf(calls[k].conversation_history, calls[k].session_id)

\* C40: a process_audio_chunk call for a session, whatever its outcome and
\* however it interleaves with other calls, leaves the window and the counter
\* of every other session unchanged, and the history it passes to the retrieval
\* and to the generation holds turns of its own session only.
C40_SessionsAreIsolated == []C40_OwnHistoryPassed /\ [][C40_OtherSessionsStep]_vars

\* the call of session 1 awaits the generation with the 18 turns of that
\* session, after the call of session 2 has stored its first exchange
C40_Witness ==
    /\ calls[1].pc = "generate"
    /\ calls[1].session_id = 1
    /\ Len(calls[1].conversation_history) = 2 * PriorExchanges
    /\ \A i \in 1..Len(calls[1].conversation_history) :
          calls[1].conversation_history[i].content \in {"help me", "reply"}
    /\ calls[2].pc = "done"
    /\ calls[2].session_id = 2
    /\ 2 \in DOMAIN pipe_sessions
    /\ Len(pipe_sessions[2].history) = 2
    /\ pipe_sessions[2].history[1].content \in Messages

====
